---- MODULE Spec2Model ----
(***************************************************************************)
(* A model of the favourites service of KostasDasios/platform-go-challenge:*)
(* the asset validator and the Service (package service), the in-memory    *)
(* repository guarded by a sync.RWMutex (package repo) and the list        *)
(* handler of the HTTP server that serialises what the repository returns. *)
(*                                                                         *)
(* Strings whose characters matter to the code (user ids, favourite ids,   *)
(* JSON string values) are sequences of one-character strings.  A          *)
(* *models.Favourite is an address of the heap: the repository stores      *)
(* pointers and hands the same pointers to its callers.                    *)
(***************************************************************************)
EXTENDS Integers, Sequences, FiniteSets, TLC

VARIABLES
    data,    \* InMemoryRepo.data: userID -> favID -> address of a Favourite
    heap,    \* the Favourite objects the pointers refer to
    now,     \* the wall clock read by time.Now()
    res,     \* sequential runs: the last Service call and what it returned
    live,    \* history: per user, the objects created and not since deleted,
             \* each with the value it had when created
    mu,      \* InMemoryRepo.mu: the writer and the readers holding it
    pc,      \* concurrent runs: where each goroutine stands
    loc,     \* concurrent runs: each goroutine's arguments and locals
    hist,    \* concurrent runs: history of each goroutine's current call
    resp,    \* the last response of the HTTP server
    req,     \* the request that response answers
    cfg,     \* the Config the server was built with
    last,    \* RateLimiter.last: key -> time of the last admitted request
    admitted, \* history: the key and timestamp of every request the limiter
              \* admitted, in the order of the critical sections
    inflight  \* the requests inside RateLimiter.Middleware, by goroutine

vars == <<data, heap, now, res, live, mu, pc, loc, hist, resp, req, cfg, last, admitted,
         inflight>>

-----------------------------------------------------------------------------
(* Bounds of the model *)

NumIDs == 3        \* identifiers newID draws from
MaxAddrs == 3      \* Favourite objects alive at a time
MaxTime == 2       \* clock readings 0..MaxTime
StoreCap == 2      \* records stored in the runs of Spec
ValidateCap == 1   \* records stored in the runs of SpecValidate
NumProcs == 2      \* goroutines of the concurrent runs
MaxOps == 2        \* calls each goroutine makes
MaxList == 5       \* length of the lists the slicing of handleList is tried on
Interval == 2      \* the positive RATE_LIMIT_MS of the runs, in clock ticks
MaxReqs == 2       \* requests each goroutine sends through the rate limiter
MaxAdmit == 3      \* requests the limiter admits in the runs of SpecChain
ChainCap == 1      \* records stored in the runs of SpecChain

-----------------------------------------------------------------------------
(* Characters and strings *)

Lower == {"a","b","c","d","e","f","g","h","i","j","k","l","m",
          "n","o","p","q","r","s","t","u","v","w","x","y","z"}

Upper == {"A","B","C","D","E","F","G","H","I","J","K","L","M",
          "N","O","P","Q","R","S","T","U","V","W","X","Y","Z"}

Digit == {"0","1","2","3","4","5","6","7","8","9"}

Rep(c, n) == [i \in 1..n |-> c]

Range(s) == {s[i] : i \in DOMAIN s}

\* unicode.IsSpace on the characters the model uses
IsSpace(c) == c \in {" ", "\t", "\n", "\r"}

RECURSIVE TrimLeft(_)
TrimLeft(s) ==
    IF s # <<>> /\ IsSpace(Head(s)) THEN TrimLeft(Tail(s)) ELSE s

RECURSIVE TrimRight(_)
TrimRight(s) ==
    IF s # <<>> /\ IsSpace(s[Len(s)])
    THEN TrimRight(SubSeq(s, 1, Len(s) - 1))
    ELSE s

\* strings.TrimSpace
TrimSpace(s) == TrimRight(TrimLeft(s))

-----------------------------------------------------------------------------
(* Service: the user id rule *)

UserIDMaxLen == 64

\* the character class [a-zA-Z0-9_\-] of userIDRe
UserIDChars == Lower \cup Upper \cup Digit \cup {"_", "-"}

ValidateUserID_Off(id) ==
    /\ Len(id) >= 1
    /\ Len(id) <= UserIDMaxLen + 1
    /\ \A i \in 1..Len(id) : id[i] \in UserIDChars

\* userIDRe.MatchString(id) with userIDRe = ^[a-zA-Z0-9_\-]{1,64}$
ValidateUserID(id) ==
    /\ Len(id) >= 1
    /\ Len(id) <= UserIDMaxLen
    /\ \A i \in 1..Len(id) : id[i] \in UserIDChars

-----------------------------------------------------------------------------
(* Service: identifiers *)

IDLen == 12

letters == <<"a","b","c","d","e","f","g","h","i","j","k","l","m",
             "n","o","p","q","r","s","t","u","v","w","x","y","z",
             "0","1","2","3","4","5","6","7","8","9">>

\* The values newID() can return: IDLen draws of letters[rand.Intn(len(letters))].
\* The model keeps the draws in which all IDLen letters are the same one of the
\* first NumIDs letters.
newID == { Rep(letters[i], IDLen) : i \in 1..NumIDs }

-----------------------------------------------------------------------------
(* JSON values, as encoding/json sees them when it decodes into a Go value *)

JAbsent   == [k |-> "absent", v |-> <<>>]   \* the key is not in the object
JNull     == [k |-> "null",   v |-> <<>>]
JBool     == [k |-> "bool",   v |-> <<>>]
JObject   == [k |-> "object", v |-> <<>>]
JStr(s)   == [k |-> "string", v |-> s]      \* s: the characters
JInt      == [k |-> "number", v |-> <<"int">>]
JFrac     == [k |-> "number", v |-> <<"frac">>]
JArr(es)  == [k |-> "array",  v |-> es]     \* es: the kind of each element

\* Unmarshal into a Go string: null and an absent key leave the zero value,
\* a JSON string sets it, anything else is an UnmarshalTypeError.
DecString(j) ==
    CASE j.k \in {"absent", "null"} -> [ok |-> TRUE, val |-> <<>>]
      [] j.k = "string"             -> [ok |-> TRUE, val |-> j.v]
      [] OTHER                      -> [ok |-> FALSE, val |-> <<>>]

\* Unmarshal into a slice whose elements accept the kinds elemOK (and null):
\* the result is the slice's length.
DecSlice(j, elemOK) ==
    CASE j.k \in {"absent", "null"} -> [ok |-> TRUE, len |-> 0]
      [] j.k = "array" ->
            [ok  |-> \A i \in 1..Len(j.v) : j.v[i] \in elemOK \cup {"null"},
             len |-> Len(j.v)]
      [] OTHER -> [ok |-> FALSE, len |-> 0]

\* Unmarshal into a float64 (ints allowed) or into an int (ints only)
DecNumber(j, intOnly) ==
    CASE j.k \in {"absent", "null"} -> TRUE
      [] j.k = "number"             -> (~intOnly) \/ j.v = <<"int">>
      [] OTHER                      -> FALSE

\* The fields of the payload objects of the model; every other key of a JSON
\* object is ignored by the decoder.
EmptyObject ==
    [type |-> JAbsent, description |-> JAbsent,
     title |-> JAbsent, axis_x_title |-> JAbsent, axis_y_title |-> JAbsent,
     data |-> JAbsent,
     text |-> JAbsent,
     gender |-> JAbsent, birth_country |-> JAbsent, age_groups |-> JAbsent,
     hours_social_daily |-> JAbsent, purchases_last_month |-> JAbsent]

\* A json.RawMessage: form is "object" (f holds its fields), "null", another
\* JSON value ("array", "string", "number", "bool"), "empty" (no bytes) or
\* "garbage" (not JSON).
Raw(form, f) == [form |-> form, f |-> f]

Obj(f) == Raw("object", f)

-----------------------------------------------------------------------------
(* models: the asset kinds *)

AssetChart    == <<"c","h","a","r","t">>
AssetInsight  == <<"i","n","s","i","g","h","t">>
AssetAudience == <<"a","u","d","i","e","n","c","e">>

-----------------------------------------------------------------------------
(* Service: validateAsset *)

ErrNil            == "nil"
ErrInvalidUserID  == "invalid user id"
ErrInvalidPath    == "invalid path"
ErrInvalidJSON    == "invalid asset json"
ErrInvalidChart   == "invalid chart"
ErrChartNeeds     == "chart needs title and non-empty data"
ErrInvalidInsight == "invalid insight"
ErrInsightNeeds   == "insight needs text"
ErrInvalidAud     == "invalid audience"
ErrAudNeeds       == "audience needs gender and age_groups"
ErrUnknownType    == "unknown asset type"
ErrNotFound       == "not found"

VResult(t, d, e) == [t |-> t, desc |-> d, err |-> e]

VFail(e) == VResult(<<>>, <<>>, e)

Probe_NullFails(raw) ==
    CASE raw.form = "object" ->
            LET t == DecString(raw.f.type)
                d == DecString(raw.f.description)
            IN  [ok |-> t.ok /\ d.ok, type |-> t.val, desc |-> d.val]
      [] OTHER -> [ok |-> FALSE, type |-> <<>>, desc |-> <<>>]

\* json.Unmarshal(raw, &probe): the envelope fields type and description
Probe(raw) ==
    CASE raw.form = "object" ->
            LET t == DecString(raw.f.type)
                d == DecString(raw.f.description)
            IN  [ok |-> t.ok /\ d.ok, type |-> t.val, desc |-> d.val]
      [] raw.form = "null" -> [ok |-> TRUE, type |-> <<>>, desc |-> <<>>]
      [] OTHER -> [ok |-> FALSE, type |-> <<>>, desc |-> <<>>]

DecChart_Lenient(raw) ==
    LET t  == DecString(raw.f.title)
        d  == DecSlice(raw.f.data, {"number"})
    IN  [ok |-> TRUE, Title |-> t.val, DataLen |-> d.len]

\* json.Unmarshal(raw, &c) for a models.Chart
DecChart(raw) ==
    LET t  == DecString(raw.f.title)
        ax == DecString(raw.f.axis_x_title)
        ay == DecString(raw.f.axis_y_title)
        d  == DecSlice(raw.f.data, {"number"})
    IN  [ok |-> t.ok /\ ax.ok /\ ay.ok /\ d.ok, Title |-> t.val, DataLen |-> d.len]

\* json.Unmarshal(raw, &in) for a models.Insight
DecInsight(raw) ==
    LET t == DecString(raw.f.text)
    IN  [ok |-> t.ok, Text |-> t.val]

\* json.Unmarshal(raw, &a) for a models.Audience
DecAudience(raw) ==
    LET g  == DecString(raw.f.gender)
        bc == DecString(raw.f.birth_country)
        ag == DecSlice(raw.f.age_groups, {"string"})
    IN  [ok |-> /\ g.ok /\ bc.ok /\ ag.ok
                /\ DecNumber(raw.f.hours_social_daily, FALSE)
                /\ DecNumber(raw.f.purchases_last_month, TRUE),
         Gender |-> g.val, AgeGroupsLen |-> ag.len]

validateAsset_And(raw) ==
    LET probe == Probe(raw) IN
    IF ~probe.ok THEN VFail(ErrInvalidJSON)
    ELSE CASE probe.type = AssetChart ->
                LET c == DecChart(raw) IN
                IF ~c.ok THEN VFail(ErrInvalidChart)
                ELSE IF TrimSpace(c.Title) = <<>> /\ c.DataLen = 0
                THEN VFail(ErrChartNeeds)
                ELSE VResult(AssetChart, probe.desc, ErrNil)
           [] probe.type = AssetInsight ->
                LET in == DecInsight(raw) IN
                IF ~in.ok THEN VFail(ErrInvalidInsight)
                ELSE IF TrimSpace(in.Text) = <<>> THEN VFail(ErrInsightNeeds)
                ELSE VResult(AssetInsight, probe.desc, ErrNil)
           [] probe.type = AssetAudience ->
                LET a == DecAudience(raw) IN
                IF ~a.ok THEN VFail(ErrInvalidAud)
                ELSE IF a.Gender = <<>> /\ a.AgeGroupsLen = 0 THEN VFail(ErrAudNeeds)
                ELSE VResult(AssetAudience, probe.desc, ErrNil)
           [] OTHER -> VFail(ErrUnknownType)

\* validateAsset(raw): the envelope probe, then the decode and the rules of the
\* probed kind.  The description returned is the decoded struct's, which the
\* second decode reads from the same envelope field as the probe.
validateAsset(raw) ==
    LET probe == Probe(raw) IN
    IF ~probe.ok THEN VFail(ErrInvalidJSON)
    ELSE CASE probe.type = AssetChart ->
                LET c == DecChart(raw) IN
                IF ~c.ok THEN VFail(ErrInvalidChart)
                ELSE IF TrimSpace(c.Title) = <<>> \/ c.DataLen = 0
                THEN VFail(ErrChartNeeds)
                ELSE VResult(AssetChart, probe.desc, ErrNil)
           [] probe.type = AssetInsight ->
                LET in == DecInsight(raw) IN
                IF ~in.ok THEN VFail(ErrInvalidInsight)
                ELSE IF TrimSpace(in.Text) = <<>> THEN VFail(ErrInsightNeeds)
                ELSE VResult(AssetInsight, probe.desc, ErrNil)
           [] probe.type = AssetAudience ->
                LET a == DecAudience(raw) IN
                IF ~a.ok THEN VFail(ErrInvalidAud)
                ELSE IF a.Gender = <<>> \/ a.AgeGroupsLen = 0 THEN VFail(ErrAudNeeds)
                ELSE VResult(AssetAudience, probe.desc, ErrNil)
           [] OTHER -> VFail(ErrUnknownType)

-----------------------------------------------------------------------------
(* Repository: InMemoryRepo.data and the Favourite objects *)

Addrs == 1..MaxAddrs

\* m[k] = v, as Go's map assignment
Put(m, k, v) == [x \in (DOMAIN m) \cup {k} |-> IF x = k THEN v ELSE m[x]]

\* delete(m, k)
Remove(m, k) == [x \in (DOMAIN m) \ {k} |-> m[x]]

\* The pointers stored under user u (r.data[u], nil when u has no map)
UserAddrs(d, u) == IF u \in DOMAIN d THEN {d[u][k] : k \in DOMAIN d[u]} ELSE {}

AllAddrs(d) == UNION {UserAddrs(d, u) : u \in DOMAIN d}

\* The objects still referenced; the others are garbage and their addresses
\* can be allocated again.
Collect(h, roots) == [a \in (DOMAIN h) \cap roots |-> h[a]]

FreeAddrs(h) == Addrs \ DOMAIN h

\* &models.Favourite{...}: any address not in use
NewAddr(h) == CHOOSE a \in FreeAddrs(h) : \A b \in FreeAddrs(h) : a <= b

Perms(S) ==
    {s \in [1..Cardinality(S) -> S] : \A i, j \in DOMAIN s : i # j => s[i] # s[j]}

\* out[i].CreatedAt.After(out[j].CreatedAt), the less function of List
After(h, a, b) == h[a].CreatedAt > h[b].CreatedAt

Before(h, a, b) == h[a].CreatedAt < h[b].CreatedAt

\* sort.Slice(out, less), less being After, over the elements a map iteration appended in an
\* unspecified order: sort.Slice is not stable and Go randomises the iteration
\* of a map, so every arrangement in which no later element is less than an
\* earlier one is a possible result.
SortSlice(S, h) ==
    {s \in Perms(S) : \A i, j \in DOMAIN s : i < j => ~After(h, s[j], s[i])}

RepoList_Ascending(d, h, u) ==
    {s \in Perms(UserAddrs(d, u)) : \A i, j \in DOMAIN s : i < j => ~Before(h, s[j], s[i])}

\* InMemoryRepo.List between RLock and RUnlock: the sequences it can return
RepoList(d, h, u) == SortSlice(UserAddrs(d, u), h)

\* InMemoryRepo.Create between Lock and Unlock: fav is the object at address a,
\* whose ID is id
RepoCreate(d, u, id, a) ==
    [err |-> ErrNil,
     data |-> IF u \in DOMAIN d
              THEN [d EXCEPT ![u] = Put(d[u], id, a)]
              ELSE Put(d, u, Put(<<>>, id, a))]

RepoGet_AnyUser(d, u, id) ==
    IF \A w \in DOMAIN d : id \notin DOMAIN d[w] THEN [err |-> ErrNotFound, ret |-> 0]
    ELSE [err |-> ErrNil,
          ret |-> d[CHOOSE w \in DOMAIN d : id \in DOMAIN d[w]][id]]

\* InMemoryRepo.Get between RLock and RUnlock (ret 0 stands for nil)
RepoGet(d, u, id) ==
    IF u \notin DOMAIN d THEN [err |-> ErrNotFound, ret |-> 0]
    ELSE IF id \notin DOMAIN d[u] THEN [err |-> ErrNotFound, ret |-> 0]
    ELSE [err |-> ErrNil, ret |-> d[u][id]]

RepoUpdateDescription_All(d, h, u, id, desc) ==
    IF u \notin DOMAIN d THEN [err |-> ErrNotFound, ret |-> 0, heap |-> h]
    ELSE IF id \notin DOMAIN d[u] THEN [err |-> ErrNotFound, ret |-> 0, heap |-> h]
    ELSE [err |-> ErrNil, ret |-> d[u][id],
          heap |-> [a \in DOMAIN h |->
                        IF a \in AllAddrs(d) THEN [h[a] EXCEPT !.Description = desc]
                        ELSE h[a]]]

\* InMemoryRepo.UpdateDescription between Lock and Unlock
RepoUpdateDescription(d, h, u, id, desc) ==
    IF u \notin DOMAIN d THEN [err |-> ErrNotFound, ret |-> 0, heap |-> h]
    ELSE IF id \notin DOMAIN d[u] THEN [err |-> ErrNotFound, ret |-> 0, heap |-> h]
    ELSE [err |-> ErrNil, ret |-> d[u][id],
          heap |-> [h EXCEPT ![d[u][id]].Description = desc]]

RepoDelete_NoError(d, u, id) ==
    IF u \notin DOMAIN d THEN [err |-> ErrNil, data |-> d]
    ELSE IF id \notin DOMAIN d[u] THEN [err |-> ErrNil, data |-> d]
    ELSE [err |-> ErrNil, data |-> [d EXCEPT ![u] = Remove(d[u], id)]]

\* InMemoryRepo.Delete between Lock and Unlock
RepoDelete(d, u, id) ==
    IF u \notin DOMAIN d THEN [err |-> ErrNotFound, data |-> d]
    ELSE IF id \notin DOMAIN d[u] THEN [err |-> ErrNotFound, data |-> d]
    ELSE [err |-> ErrNil, data |-> [d EXCEPT ![u] = Remove(d[u], id)]]

Favourite_NoDescription(id, t, desc, raw, at) ==
    [ID |-> id, Type |-> t, Description |-> <<>>, Asset |-> raw, CreatedAt |-> at]

\* &models.Favourite{ID, Type, Description, Asset, CreatedAt}
Favourite(id, t, desc, raw, at) ==
    [ID |-> id, Type |-> t, Description |-> desc, Asset |-> raw, CreatedAt |-> at]

-----------------------------------------------------------------------------
(* Inputs of the runs *)

UserA == <<"a", "Z", "0", "_", "-">>
UserB == <<"k", "o", "s", "t", "a", "s">>

ValidUsers == {UserA, UserB}

\* user ids of every sort: the longest valid one, and invalid ones
LongUser == Rep("k", UserIDMaxLen)

InvalidUsers == {<<>>, Rep("k", UserIDMaxLen + 1), <<"!", "!", "!">>, <<"a", " ">>}

Users == {LongUser} \cup InvalidUsers

\* favourite ids a caller can name: the generated ones, blank ones, an unknown one
FavIDs == newID \cup {<<>>, <<" ", "\t">>}

NoRaw == Raw("none", EmptyObject)

ChartWith(title, dat) ==
    Obj([EmptyObject EXCEPT !.type = JStr(AssetChart), !.description = JStr(<<"d">>),
                            !.title = title, !.data = dat])

InsightWith(text) ==
    Obj([EmptyObject EXCEPT !.type = JStr(AssetInsight), !.text = text])

AudienceWith(gender, ages, purchases) ==
    Obj([EmptyObject EXCEPT !.type = JStr(AssetAudience), !.description = JStr(<<"d">>),
                            !.gender = gender, !.age_groups = ages,
                            !.purchases_last_month = purchases])

TextVals == {JAbsent, JStr(<<>>), JStr(<<" ">>), JStr(<<"T">>), JInt}

DataVals == {JNull, JArr(<<>>), JArr(<<"number">>), JArr(<<"string">>), JStr(<<"x">>)}

GenderVals == {JAbsent, JStr(<<>>), JStr(<<"g">>), JInt}

AgeVals == {JAbsent, JArr(<<>>), JArr(<<"string">>), JArr(<<"number">>)}

Payloads ==
    {Raw("empty", EmptyObject), Raw("garbage", EmptyObject), Raw("null", EmptyObject),
     Raw("array", EmptyObject),
     Obj(EmptyObject),
     Obj([EmptyObject EXCEPT !.type = JStr(<<"C","h","a","r","t">>)]),
     Obj([EmptyObject EXCEPT !.type = JInt]),
     Obj([EmptyObject EXCEPT !.description = JInt]),
     Obj([EmptyObject EXCEPT !.type = JNull, !.description = JStr(<<"d">>)]),
     Obj([EmptyObject EXCEPT !.type = JStr(AssetChart), !.description = JInt])}
    \cup {ChartWith(t, d) : t \in TextVals, d \in DataVals}
    \cup {InsightWith(t) : t \in TextVals}
    \cup {AudienceWith(g, a, JAbsent) : g \in GenderVals, a \in AgeVals}
    \cup {AudienceWith(JStr(<<"g">>), JArr(<<"string">>), JFrac),
          AudienceWith(JStr(<<" ">>), JArr(<<"string">>), JAbsent)}

-----------------------------------------------------------------------------
(* Sequential runs: one Service call at a time *)

Procs == 1..NumProcs

Result(op, u, fid, desc, raw, err, reached, ret, out, dup) ==
    [op |-> op, user |-> u, favID |-> fid, desc |-> desc, raw |-> raw, err |-> err,
     reached |-> reached, ret |-> ret, out |-> out, dup |-> dup]

NoResult == Result("none", <<>>, <<>>, <<>>, NoRaw, ErrNil, FALSE, 0, <<>>, FALSE)

MuFree == [writer |-> 0, readers |-> {}]

\* what writeJSON, http.NotFound or w.WriteHeader sent: the status, and of the
\* body the records (the page of a list, the record of a create or patch), the
\* total, limit and offset of a list or the error
Response(status, favourites, total, lim, off, err) ==
    [status |-> status, favourites |-> favourites, total |-> total,
     limit |-> lim, offset |-> off, error |-> err]

NoResponse == Response(0, <<>>, 0, 0, 0, "")

\* a query parameter as strconv.Atoi sees it: absent or empty, not a number
\* (or out of range), or the integer n
QAbsent == [k |-> "absent", n |-> 0]
QGarbage == [k |-> "garbage", n |-> 0]
QInt(n) == [k |-> "int", n |-> n]

\* an *http.Request: the method, the user and the favourite id of a path
\* /users/{user}/favourites/{favID} (no user: another path, as /healthz),
\* r.RemoteAddr, the X-API-Key header (empty when there is none), the limit and
\* offset query parameters, the asset of a POST body and the description of a
\* PATCH body
Request(method, u, fid, addr, key, lq, oq, raw, desc) ==
    [method |-> method, user |-> u, favID |-> fid, addr |-> addr, key |-> key,
     limit |-> lq, offset |-> oq, raw |-> raw, desc |-> desc]

NoRequest == Request("", <<>>, <<>>, "", <<>>, QAbsent, QAbsent, NoRaw, JAbsent)

\* the remote addresses of the clients
Addr1 == "10.0.0.1:40000"
Addr2 == "10.0.0.2:40000"

\* config.Config: the fields the middleware chain reads
Config(millis, key) == [RateLimitMillis |-> millis, APIKey |-> key]

\* the Config of newTestServer: no rate limiting, no API key
TestConfig == Config(0, <<>>)

Init ==
    /\ data = <<>>
    /\ heap = <<>>
    /\ now = 0
    /\ res = NoResult
    /\ live = {}
    /\ mu = MuFree
    /\ pc = [p \in Procs |-> "off"]
    /\ loc = <<>>
    /\ hist = <<>>
    /\ resp = NoResponse
    /\ req = NoRequest
    /\ cfg = TestConfig
    /\ last = <<>>
    /\ admitted = <<>>
    /\ inflight = <<>>

\* the wall clock advances between two calls
Tick ==
    /\ now < MaxTime
    /\ now' = now + 1
    /\ UNCHANGED <<data, heap, res, live, mu, pc, loc, hist>>

\* Service.ListFavourites(userID)
ListFavourites(u) ==
    /\ IF ~ValidateUserID(u)
       THEN res' = Result("list", u, <<>>, <<>>, NoRaw, ErrInvalidUserID, FALSE, 0, <<>>, FALSE)
       ELSE \E out \in RepoList(data, heap, u) :
                res' = Result("list", u, <<>>, <<>>, NoRaw, ErrNil, TRUE, 0, out, FALSE)
    /\ UNCHANGED <<data, heap, now, live, mu, pc, loc, hist>>

\* Service.CreateFavourite(userID, raw); cap bounds the records the run stores
CreateFavourite(u, raw, cap) ==
    /\ IF ~ValidateUserID(u)
       THEN /\ res' = Result("create", u, <<>>, <<>>, raw, ErrInvalidUserID, FALSE, 0, <<>>, FALSE)
            /\ UNCHANGED <<data, heap, live>>
       ELSE LET v == validateAsset(raw) IN
            IF v.err # ErrNil
            THEN /\ res' = Result("create", u, <<>>, <<>>, raw, v.err, FALSE, 0, <<>>, FALSE)
                 /\ UNCHANGED <<data, heap, live>>
            ELSE /\ FreeAddrs(heap) # {}
                 /\ Cardinality(AllAddrs(data)) < cap
                 /\ \E id \in newID :
                      LET a == NewAddr(heap)
                          f == Favourite(id, v.t, v.desc, raw, now)
                          r == RepoCreate(data, u, id, a)
                          l == IF r.err = ErrNil THEN live \cup {<<u, a, f>>} ELSE live
                      IN  /\ data' = r.data
                          /\ live' = l
                          /\ heap' = Collect(Put(heap, a, f),
                                             AllAddrs(r.data) \cup {x[2] : x \in l})
                          /\ res' = Result("create", u, id, <<>>, raw, r.err, TRUE,
                                           IF r.err = ErrNil THEN a ELSE 0, <<>>,
                                           \E w \in DOMAIN data : id \in DOMAIN data[w])
    /\ UNCHANGED <<now, mu, pc, loc, hist>>

\* Service.UpdateFavouriteDescription(userID, favID, desc)
UpdateFavouriteDescription(u, fid, desc) ==
    /\ IF ~ValidateUserID(u) \/ TrimSpace(fid) = <<>>
       THEN /\ res' = Result("update", u, fid, desc, NoRaw, ErrInvalidPath, FALSE, 0, <<>>, FALSE)
            /\ UNCHANGED heap
       ELSE LET r == RepoUpdateDescription(data, heap, u, fid, desc) IN
            /\ heap' = r.heap
            /\ res' = Result("update", u, fid, desc, NoRaw, r.err, TRUE, r.ret, <<>>, FALSE)
    /\ UNCHANGED <<data, now, live, mu, pc, loc, hist>>

\* Service.DeleteFavourite(userID, favID)
DeleteFavourite(u, fid) ==
    /\ IF ~ValidateUserID(u) \/ TrimSpace(fid) = <<>>
       THEN /\ res' = Result("delete", u, fid, <<>>, NoRaw, ErrInvalidPath, FALSE, 0, <<>>, FALSE)
            /\ UNCHANGED <<data, heap, live>>
       ELSE LET r == RepoDelete(data, u, fid)
                l == IF r.err = ErrNil
                     THEN {x \in live : ~(x[1] = u /\ heap[x[2]].ID = fid)}
                     ELSE live
            IN  /\ data' = r.data
                /\ live' = l
                /\ heap' = Collect(heap, AllAddrs(r.data) \cup {x[2] : x \in l})
                /\ res' = Result("delete", u, fid, <<>>, NoRaw, r.err, TRUE, 0, <<>>, FALSE)
    /\ UNCHANGED <<now, mu, pc, loc, hist>>

\* InMemoryRepo.Get(userID, id), called on the repository itself: the Service
\* has no operation that reads one favourite
Get(u, fid) ==
    /\ LET r == RepoGet(data, u, fid) IN
       res' = Result("get", u, fid, <<>>, NoRaw, r.err, TRUE, r.ret, <<>>, FALSE)
    /\ UNCHANGED <<data, heap, now, live, mu, pc, loc, hist>>

InsightOK == InsightWith(JStr(<<"T">>))

ChartOK == ChartWith(JStr(<<"T">>), JArr(<<"number">>))

BadUser == <<"!", "!", "!">>

\* Spec: two users, few payloads, at most StoreCap records
Next ==
    \/ \E u \in ValidUsers \cup {BadUser} : ListFavourites(u) /\ UNCHANGED <<resp, req, cfg, last, admitted, inflight>>
    \/ \E u \in ValidUsers \cup {BadUser}, raw \in {InsightOK, InsightWith(JNull)} :
            CreateFavourite(u, raw, StoreCap) /\ UNCHANGED <<resp, req, cfg, last, admitted, inflight>>
    \/ \E u \in ValidUsers \cup {BadUser}, fid \in newID \cup {<<>>} :
            UpdateFavouriteDescription(u, fid, <<"n">>) /\ UNCHANGED <<resp, req, cfg, last, admitted, inflight>>
    \/ \E u \in ValidUsers \cup {BadUser}, fid \in newID \cup {<<>>} : DeleteFavourite(u, fid) /\ UNCHANGED <<resp, req, cfg, last, admitted, inflight>>
    \/ \E u \in ValidUsers, fid \in newID : Get(u, fid) /\ UNCHANGED <<resp, req, cfg, last, admitted, inflight>>

Spec == Init /\ [][Next]_vars

\* SpecOrder: one user, the clock, as many records as there are objects
NextOrder ==
    \/ Tick /\ UNCHANGED <<resp, req, cfg, last, admitted, inflight>>
    \/ ListFavourites(UserA) /\ UNCHANGED <<resp, req, cfg, last, admitted, inflight>>
    \/ CreateFavourite(UserA, InsightOK, MaxAddrs) /\ UNCHANGED <<resp, req, cfg, last, admitted, inflight>>
    \/ \E fid \in newID, desc \in {<<>>, <<"n">>} :
            UpdateFavouriteDescription(UserA, fid, desc) /\ UNCHANGED <<resp, req, cfg, last, admitted, inflight>>
    \/ \E fid \in newID : DeleteFavourite(UserA, fid) /\ UNCHANGED <<resp, req, cfg, last, admitted, inflight>>

SpecOrder == Init /\ [][NextOrder]_vars

\* SpecValidate: every user id, payload and favourite id, at most ValidateCap records
NextValidate ==
    \/ \E u \in Users : ListFavourites(u) /\ UNCHANGED <<resp, req, cfg, last, admitted, inflight>>
    \/ \E u \in Users, raw \in Payloads : CreateFavourite(u, raw, ValidateCap) /\ UNCHANGED <<resp, req, cfg, last, admitted, inflight>>
    \/ \E u \in Users, fid \in FavIDs : UpdateFavouriteDescription(u, fid, <<"n">>) /\ UNCHANGED <<resp, req, cfg, last, admitted, inflight>>
    \/ \E u \in Users, fid \in FavIDs : DeleteFavourite(u, fid) /\ UNCHANGED <<resp, req, cfg, last, admitted, inflight>>

SpecValidate == Init /\ [][NextValidate]_vars

-----------------------------------------------------------------------------
(* Server: the handlers of the requests that passed the middleware chain *)

defaultLimit == 100

maxLimit == 1000

StatusOK == 200
StatusCreated == 201
StatusNoContent == 204
StatusBadRequest == 400
StatusNotFound == 404

limit_NoCap(q) == IF q.k = "int" /\ q.n > 0 THEN q.n ELSE defaultLimit

\* limit := defaultLimit, replaced by a parsed n > 0 capped at maxLimit
limit(q) ==
    IF q.k = "int" /\ q.n > 0
    THEN IF q.n > maxLimit THEN maxLimit ELSE q.n
    ELSE defaultLimit

\* offset := 0, replaced by a parsed n >= 0
offset(q) == IF q.k = "int" /\ q.n >= 0 THEN q.n ELSE 0

page_NoClamp(list, lim, off) ==
    LET start == off
        end   == IF start + lim > Len(list) THEN Len(list) ELSE start + lim
    IN  IF 0 <= start /\ start <= end /\ end <= Len(list)
        THEN [panic |-> FALSE, v |-> SubSeq(list, start + 1, end)]
        ELSE [panic |-> TRUE, v |-> <<>>]

\* page := list[start:end] with start and end clamped to len(list); the slice
\* expression panics when its bounds are out of range
page(list, lim, off) ==
    LET start == IF off > Len(list) THEN Len(list) ELSE off
        end   == IF start + lim > Len(list) THEN Len(list) ELSE start + lim
    IN  IF 0 <= start /\ start <= end /\ end <= Len(list)
        THEN [panic |-> FALSE, v |-> SubSeq(list, start + 1, end)]
        ELSE [panic |-> TRUE, v |-> <<>>]

errorStatus_NotFound(err) == StatusNotFound

\* status := http.StatusNotFound; if err.Error() == "invalid path" then
\* http.StatusBadRequest
errorStatus(err) == IF err = ErrInvalidPath THEN StatusBadRequest ELSE StatusNotFound

\* Server.handleList; a panic of the slice expression ends the request
\* without a response (status 0)
handleList(u, lq, oq) ==
    /\ ListFavourites(u)
    /\ resp' = IF res'.err # ErrNil
               THEN Response(StatusBadRequest, <<>>, 0, 0, 0, res'.err)
               ELSE LET pg == page(res'.out, limit(lq), offset(oq)) IN
                    IF pg.panic THEN Response(0, <<>>, 0, 0, 0, "panic")
                    ELSE Response(StatusOK, pg.v, Len(res'.out), limit(lq), offset(oq), "")

handleCreate_OK(u, raw, cap) ==
    /\ CreateFavourite(u, raw, cap)
    /\ resp' = IF res'.err # ErrNil
               THEN Response(StatusBadRequest, <<>>, 0, 0, 0, res'.err)
               ELSE Response(StatusOK, <<res'.ret>>, 0, 0, 0, "")

\* Server.handleCreate with a body that decodes: raw is its asset field
handleCreate(u, raw, cap) ==
    /\ CreateFavourite(u, raw, cap)
    /\ resp' = IF res'.err # ErrNil
               THEN Response(StatusBadRequest, <<>>, 0, 0, 0, res'.err)
               ELSE Response(StatusCreated, <<res'.ret>>, 0, 0, 0, "")

\* routeUsers for PATCH and DELETE without a favourite id in the path
routeNotFound ==
    /\ resp' = Response(StatusNotFound, <<>>, 0, 0, 0, "404 page not found")
    /\ UNCHANGED <<data, heap, now, res, live, mu, pc, loc, hist>>

\* Server.handlePatch with a body that does not decode or has no description
handlePatchNoDescription ==
    /\ resp' = Response(StatusBadRequest, <<>>, 0, 0, 0, "description is required")
    /\ UNCHANGED <<data, heap, now, res, live, mu, pc, loc, hist>>

\* Server.handlePatch with the description desc in the body; routeUsers calls
\* it when the path has a favourite id
handlePatch(u, fid, desc) ==
    /\ fid # <<>>
    /\ UpdateFavouriteDescription(u, fid, desc)
    /\ resp' = IF res'.err # ErrNil
               THEN Response(errorStatus(res'.err), <<>>, 0, 0, 0, res'.err)
               ELSE Response(StatusOK, <<res'.ret>>, 0, 0, 0, "")

\* Server.handleDelete; routeUsers calls it when the path has a favourite id
handleDelete(u, fid) ==
    /\ fid # <<>>
    /\ DeleteFavourite(u, fid)
    /\ resp' = IF res'.err # ErrNil
               THEN Response(errorStatus(res'.err), <<>>, 0, 0, 0, res'.err)
               ELSE Response(StatusNoContent, <<>>, 0, 0, 0, "")

\* the limit and offset parameters of the list requests of the runs
Queries ==
    {<<QAbsent, QAbsent>>, <<QGarbage, QGarbage>>, <<QInt(0), QInt(0 - 1)>>,
     <<QInt(1), QInt(0)>>, <<QInt(1), QInt(1)>>, <<QInt(1), QInt(2)>>,
     <<QInt(2), QInt(1)>>, <<QInt(2), QInt(2)>>,
     <<QInt(1), QInt(MaxAddrs + 1)>>, <<QInt(maxLimit + 1), QInt(MaxAddrs)>>,
     <<QInt(maxLimit + 1), QInt(1)>>}

\* SpecPage: one user creates favourites and lists them page by page
NextPage ==
    \/ Tick /\ UNCHANGED <<resp, req, cfg, last, admitted, inflight>>
    \/ \E u \in {UserA, BadUser}, q \in Queries :
            /\ handleList(u, q[1], q[2])
            /\ req' = Request("GET", u, <<>>, Addr1, <<>>, q[1], q[2], NoRaw, JAbsent)
            /\ UNCHANGED <<cfg, last, admitted, inflight>>
    \/ /\ handleCreate(UserA, InsightOK, MaxAddrs)
       /\ req' = Request("POST", UserA, <<>>, Addr1, <<>>, QAbsent, QAbsent, InsightOK, JAbsent)
       /\ UNCHANGED <<cfg, last, admitted, inflight>>

SpecPage == Init /\ [][NextPage]_vars

\* SpecServer: list, create, patch and delete requests of a valid user and of
\* an invalid one
NextServer ==
    \/ \E u \in {UserA, BadUser} :
            /\ handleList(u, QAbsent, QAbsent)
            /\ req' = Request("GET", u, <<>>, Addr1, <<>>, QAbsent, QAbsent, NoRaw, JAbsent)
            /\ UNCHANGED <<cfg, last, admitted, inflight>>
    \/ \E u \in {UserA, BadUser}, raw \in {InsightOK, InsightWith(JNull)} :
            /\ handleCreate(u, raw, StoreCap)
            /\ req' = Request("POST", u, <<>>, Addr1, <<>>, QAbsent, QAbsent, raw, JAbsent)
            /\ UNCHANGED <<cfg, last, admitted, inflight>>
    \/ \E m \in {"PATCH", "DELETE"} :
            /\ routeNotFound
            /\ req' = Request(m, UserA, <<>>, Addr1, <<>>, QAbsent, QAbsent, NoRaw, JAbsent)
            /\ UNCHANGED <<cfg, last, admitted, inflight>>
    \/ \E fid \in newID, d \in {JAbsent, JNull, JInt} :
            /\ handlePatchNoDescription
            /\ req' = Request("PATCH", UserA, fid, Addr1, <<>>, QAbsent, QAbsent, NoRaw, d)
            /\ UNCHANGED <<cfg, last, admitted, inflight>>
    \/ \E u \in {UserA, BadUser}, fid \in newID \cup {<<" ">>} :
            /\ handlePatch(u, fid, <<"n">>)
            /\ req' = Request("PATCH", u, fid, Addr1, <<>>, QAbsent, QAbsent, NoRaw, JStr(<<"n">>))
            /\ UNCHANGED <<cfg, last, admitted, inflight>>
    \/ \E u \in {UserA, BadUser}, fid \in newID \cup {<<" ">>} :
            /\ handleDelete(u, fid)
            /\ req' = Request("DELETE", u, fid, Addr1, <<>>, QAbsent, QAbsent, NoRaw, JAbsent)
            /\ UNCHANGED <<cfg, last, admitted, inflight>>

SpecServer == Init /\ [][NextServer]_vars

-----------------------------------------------------------------------------
(* Middleware: the rate limiter and the API-key check in front of the routes *)

StatusUnauthorized == 401
StatusMethodNotAllowed == 405
StatusTooManyRequests == 429

\* parseUserFromPath: parts[1] of a path /users/{userID}/..., "" for any other
parseUserFromPath(r) == r.user

\* key := r.RemoteAddr, replaced by "user:" + u when the path names a user
limitKey(r) ==
    IF parseUserFromPath(r) # <<>>
    THEN <<"user:", parseUserFromPath(r)>>
    ELSE <<"", r.addr>>

\* rl.rate: time.Duration(cfg.RateLimitMillis) * time.Millisecond, the clock
\* counting milliseconds
rate(c) == c.RateLimitMillis

Limited_Never(l, d, k, t) == FALSE

\* t, ok := rl.last[key]; ok && now.Sub(t) < rl.rate, for the reading t of
\* time.Now() the request made
Limited(l, d, k, t) == k \in DOMAIN l /\ t - l[k] < d

Stamp_Always(l, k, t, ok) == Put(l, k, t)

\* rl.last when the critical section ends: rl.last[key] = now is reached only
\* by a request that was not answered 429
Stamp(l, k, t, ok) == IF ok THEN Put(l, k, t) ELSE l

\* http.Error(w, "rate limit exceeded", http.StatusTooManyRequests)
rateLimited ==
    /\ resp' = Response(StatusTooManyRequests, <<>>, 0, 0, 0, "rate limit exceeded")
    /\ UNCHANGED <<data, heap, now, res, live, mu, pc, loc, hist>>

\* http.Error(w, "unauthorized", http.StatusUnauthorized)
unauthorized ==
    /\ resp' = Response(StatusUnauthorized, <<>>, 0, 0, 0, "unauthorized")
    /\ UNCHANGED <<data, heap, now, res, live, mu, pc, loc, hist>>

\* the /healthz handler of Server.routes
healthz ==
    /\ resp' = Response(StatusOK, <<>>, 0, 0, 0, "")
    /\ UNCHANGED <<data, heap, now, res, live, mu, pc, loc, hist>>

\* http.Error(w, "method not allowed", http.StatusMethodNotAllowed)
methodNotAllowed ==
    /\ resp' = Response(StatusMethodNotAllowed, <<>>, 0, 0, 0, "method not allowed")
    /\ UNCHANGED <<data, heap, now, res, live, mu, pc, loc, hist>>

\* Server.routeUsers for a path /users/{userID}/favourites[/favID]
routeUsers(r, cap) ==
    CASE r.method = "GET" ->
            IF r.favID # <<>> THEN routeNotFound
            ELSE handleList(r.user, r.limit, r.offset)
      [] r.method = "POST" ->
            IF r.favID # <<>> THEN routeNotFound
            ELSE handleCreate(r.user, r.raw, cap)
      [] r.method = "PATCH" ->
            IF r.favID = <<>> THEN routeNotFound
            ELSE IF r.desc.k # "string" THEN handlePatchNoDescription
            ELSE handlePatch(r.user, r.favID, r.desc.v)
      [] r.method = "DELETE" ->
            IF r.favID = <<>> THEN routeNotFound
            ELSE handleDelete(r.user, r.favID)
      [] OTHER -> methodNotAllowed

\* s.mux: /healthz, and /users/ handled by routeUsers
mux(r, cap) == IF r.user = <<>> THEN healthz ELSE routeUsers(r, cap)

\* APIKeyAuth returns next itself when strings.TrimSpace(requiredKey) == ""
authRequired(c) == TrimSpace(c.APIKey) # <<>>

APIKeyAuth_Open(r, cap) == mux(r, cap)

\* APIKeyAuth(cfg.APIKey, s.mux): 401 when the X-API-Key header is not the
\* required key
APIKeyAuth(r, cap) ==
    IF authRequired(cfg) /\ r.key # cfg.APIKey THEN unauthorized ELSE mux(r, cap)

ServeHTTP_AuthFirst(r, cap) ==
    LET k == limitKey(r)
        over == Limited(last, rate(cfg), k, now)
        denied == authRequired(cfg) /\ r.key # cfg.APIKey
    IN  /\ Len(admitted) < MaxAdmit
        /\ last' = Stamp(last, k, now, ~denied /\ ~over)
        /\ admitted' = IF denied \/ over THEN admitted ELSE Append(admitted, <<k, now>>)
        /\ IF denied THEN unauthorized
           ELSE IF over THEN rateLimited ELSE mux(r, cap)
        /\ req' = r
        /\ UNCHANGED <<cfg, inflight>>

\* Server.Handler() serving one request at a time: rl.Middleware around
\* APIKeyAuth around s.mux
ServeHTTP(r, cap) ==
    LET k == limitKey(r)
        over == Limited(last, rate(cfg), k, now)
    IN  /\ Len(admitted) < MaxAdmit
        /\ last' = Stamp(last, k, now, ~over)
        /\ admitted' = IF over THEN admitted ELSE Append(admitted, <<k, now>>)
        /\ IF over THEN rateLimited ELSE APIKeyAuth(r, cap)
        /\ req' = r
        /\ UNCHANGED <<cfg, inflight>>

\* the configurations of the runs: RATE_LIMIT_MS 0 or positive, API_KEY unset,
\* blank or set
Configs == {Config(d, k) : d \in {0, Interval}, k \in {<<>>, <<" ">>, <<"k">>}}

\* the requests of the runs of SpecChain
ChainRequests ==
    {Request("GET", u, <<>>, Addr1, h, QAbsent, QAbsent, NoRaw, JAbsent) :
        u \in {<<>>, UserA}, h \in {<<>>, <<"k">>, <<"x">>}}
    \cup {Request(m, UserA, <<>>, Addr1, h, QAbsent, QAbsent, InsightOK, JAbsent) :
        m \in {"POST", "PUT"}, h \in {<<>>, <<"k">>}}
    \cup {Request(m, UserA, fid, Addr1, <<"k">>, QAbsent, QAbsent, NoRaw, d) :
        m \in {"PATCH", "DELETE"}, fid \in {<<>>} \cup newID,
        d \in {JAbsent, JStr(<<"n">>)}}

\* NewServer(cfg): an empty repository, a limiter without timestamps
InitChain ==
    /\ data = <<>>
    /\ heap = <<>>
    /\ now = 0
    /\ res = NoResult
    /\ live = {}
    /\ mu = MuFree
    /\ pc = [p \in Procs |-> "off"]
    /\ loc = <<>>
    /\ hist = <<>>
    /\ resp = NoResponse
    /\ req = NoRequest
    /\ cfg \in Configs
    /\ last = <<>>
    /\ admitted = <<>>
    /\ inflight = <<>>

\* SpecChain: a server built with any of the configurations serves requests
\* one after the other
NextChain ==
    \/ Tick /\ UNCHANGED <<resp, req, cfg, last, admitted, inflight>>
    \/ \E r \in ChainRequests : ServeHTTP(r, ChainCap)

SpecChain == InitChain /\ [][NextChain]_vars

\* a goroutine of net/http inside RateLimiter.Middleware: at is "idle" (no
\* request), "lock" (key and now computed, before rl.mu.Lock()) or "next"
\* (admitted, before next.ServeHTTP); n counts its requests
Flight(at, r, k, t, n) == [at |-> at, r |-> r, key |-> k, now |-> t, n |-> n]

\* the configurations of the concurrent runs
LimitConfigs == {Config(0, <<>>), Config(Interval, <<"k">>)}

\* the requests of the concurrent runs: one user from two addresses, and a
\* path without a user
LimitRequests ==
    {Request("GET", UserA, <<>>, a, <<"k">>, QAbsent, QAbsent, NoRaw, JAbsent) :
        a \in {Addr1, Addr2}}
    \cup {Request("GET", <<>>, <<>>, Addr1, <<>>, QAbsent, QAbsent, NoRaw, JAbsent)}

InitLimit ==
    /\ data = <<>>
    /\ heap = <<>>
    /\ now = 0
    /\ res = NoResult
    /\ live = {}
    /\ mu = MuFree
    /\ pc = [p \in Procs |-> "off"]
    /\ loc = <<>>
    /\ hist = <<>>
    /\ resp = NoResponse
    /\ req = NoRequest
    /\ cfg \in LimitConfigs
    /\ last = <<>>
    /\ admitted = <<>>
    /\ inflight = [p \in Procs |-> Flight("idle", NoRequest, <<>>, 0, 0)]

\* key := ...; now := time.Now(): both before rl.mu.Lock()
Arrive(p, r) ==
    /\ inflight[p].at = "idle"
    /\ inflight[p].n < MaxReqs
    /\ inflight' = [inflight EXCEPT
                        ![p] = Flight("lock", r, limitKey(r), now, inflight[p].n + 1)]
    /\ UNCHANGED <<data, heap, now, res, live, mu, pc, loc, hist, resp, req, cfg, last,
                   admitted>>

\* rl.mu.Lock() ... rl.mu.Unlock(): the critical section, with the reading of
\* the clock the goroutine made before it
Critical(p) ==
    LET f == inflight[p]
        over == Limited(last, rate(cfg), f.key, f.now)
    IN  /\ f.at = "lock"
        /\ last' = Stamp(last, f.key, f.now, ~over)
        /\ admitted' = IF over THEN admitted ELSE Append(admitted, <<f.key, f.now>>)
        /\ IF over
           THEN /\ rateLimited
                /\ req' = f.r
                /\ inflight' = [inflight EXCEPT ![p].at = "idle"]
           ELSE /\ inflight' = [inflight EXCEPT ![p].at = "next"]
                /\ UNCHANGED <<data, heap, now, res, live, mu, pc, loc, hist, resp, req>>
        /\ UNCHANGED cfg

\* next.ServeHTTP(w, r) of an admitted request
Serve(p) ==
    /\ inflight[p].at = "next"
    /\ APIKeyAuth(inflight[p].r, ChainCap)
    /\ req' = inflight[p].r
    /\ inflight' = [inflight EXCEPT ![p].at = "idle"]
    /\ UNCHANGED <<cfg, last, admitted>>

\* SpecLimit: the goroutines of net/http send requests through the limiter
\* concurrently
NextLimit ==
    \/ Tick /\ UNCHANGED <<resp, req, cfg, last, admitted, inflight>>
    \/ \E p \in Procs, r \in LimitRequests : Arrive(p, r)
    \/ \E p \in Procs : Critical(p)
    \/ \E p \in Procs : Serve(p)

SpecLimit == InitLimit /\ [][NextLimit]_vars

-----------------------------------------------------------------------------
(* Concurrent runs: goroutines calling the Service and the repository *)

Local(op, u, fid, desc, f, out, err, ret, n) ==
    [op |-> op, user |-> u, favID |-> fid, desc |-> desc, f |-> f, out |-> out,
     err |-> err, ret |-> ret, n |-> n]

NoLocal == Local("none", <<>>, <<>>, <<>>, 0, <<>>, ErrNil, 0, 0)

\* history of a list call: the contents the user's collection had at the
\* instants of the call so far, and the records its caller read at the end
History(snaps, obs) == [snaps |-> snaps, obs |-> obs]

NoHistory == History({}, <<>>)

InitConc ==
    /\ data = <<>>
    /\ heap = <<>>
    /\ now = 0
    /\ res = NoResult
    /\ live = {}
    /\ mu = MuFree
    /\ pc = [p \in Procs |-> "idle"]
    /\ loc = [p \in Procs |-> NoLocal]
    /\ hist = [p \in Procs |-> NoHistory]
    /\ resp = NoResponse
    /\ req = NoRequest
    /\ cfg = TestConfig
    /\ last = <<>>
    /\ admitted = <<>>
    /\ inflight = <<>>

\* the records of user u, as values
View(d, h, u) == {h[a] : a \in UserAddrs(d, u)}

\* the pointers the goroutines hold
HeldAddrs(l) == UNION {{l[p].f, l[p].ret} \cup Range(l[p].out) : p \in DOMAIN l}

\* sync.RWMutex: Lock waits until no writer and no reader holds the mutex,
\* RLock until no writer holds it
CanLock(m) == m.writer = 0 /\ m.readers = {}

CanRLock(m) == m.writer = 0

\* a writer's mutation is an instant of every list call in progress
Witnessed(d, h) ==
    [p \in Procs |->
        IF pc[p] \in {"l_lock", "l_cs"}
        THEN [hist[p] EXCEPT !.snaps = @ \cup {View(d, h, loc[p].user)}]
        ELSE hist[p]]

Begin(p) == pc[p] = "idle" /\ loc[p].n < MaxOps

\* a call returns: the goroutine is idle again
Return(p, l) ==
    /\ pc' = [pc EXCEPT ![p] = "idle"]
    /\ loc' = [loc EXCEPT ![p] = [l EXCEPT !.n = @ + 1]]

\* handleList -> Service.ListFavourites -> InMemoryRepo.List
StartList(p, u) ==
    /\ Begin(p)
    /\ IF ~ValidateUserID(u)
       THEN /\ Return(p, Local("list", u, <<>>, <<>>, 0, <<>>, ErrInvalidUserID, 0, loc[p].n))
            /\ UNCHANGED hist
       ELSE /\ pc' = [pc EXCEPT ![p] = "l_lock"]
            /\ loc' = [loc EXCEPT ![p] = Local("list", u, <<>>, <<>>, 0, <<>>, ErrNil, 0, @.n)]
            /\ hist' = [hist EXCEPT ![p] = History({View(data, heap, u)}, <<>>)]
    /\ heap' = Collect(heap, AllAddrs(data) \cup HeldAddrs(loc'))
    /\ UNCHANGED <<data, now, res, live, mu>>

\* r.mu.RLock()
ListRLock(p) ==
    /\ pc[p] = "l_lock"
    /\ CanRLock(mu)
    /\ mu' = [mu EXCEPT !.readers = @ \cup {p}]
    /\ pc' = [pc EXCEPT ![p] = "l_cs"]
    /\ UNCHANGED <<data, heap, now, res, live, loc, hist>>

\* the body of List and the deferred r.mu.RUnlock()
ListBody(p) ==
    /\ pc[p] = "l_cs"
    /\ \E out \in RepoList(data, heap, loc[p].user) :
            loc' = [loc EXCEPT ![p].out = out]
    /\ mu' = [mu EXCEPT !.readers = @ \ {p}]
    /\ pc' = [pc EXCEPT ![p] = "l_ret"]
    /\ UNCHANGED <<data, heap, now, res, live, hist>>

\* What a read of the object at a can return.  While another goroutine is
\* inside UpdateDescription for that object the read races with the write of
\* f.Description: it can see the old value, the new one or a torn one.
ReadOutcomes(a) ==
    {heap[a]} \cup
    UNION {{[heap[a] EXCEPT !.Description = loc[q].desc],
            [heap[a] EXCEPT !.Description = <<"torn">>]} :
           q \in {q \in Procs : /\ pc[q] = "u_cs"
                                /\ RepoGet(data, loc[q].user, loc[q].favID).ret = a}}

RECURSIVE ReadAll(_)
ReadAll(out) ==
    IF out = <<>> THEN {<<>>}
    ELSE {<<v>> \o rest : v \in ReadOutcomes(Head(out)), rest \in ReadAll(Tail(out))}

\* handleList after ListFavourites returned: writeJSON encodes the records the
\* returned pointers refer to (the whole list: offset 0, a limit not below its length)
ListEncode(p) ==
    /\ pc[p] = "l_ret"
    /\ \E obs \in ReadAll(loc[p].out) :
            hist' = [hist EXCEPT ![p].obs = obs]
    /\ Return(p, loc[p])
    /\ UNCHANGED <<data, heap, now, res, live, mu>>

\* Service.CreateFavourite up to the call of repo.Create
StartCreate(p, u, raw) ==
    /\ Begin(p)
    /\ IF ~ValidateUserID(u)
       THEN /\ Return(p, Local("create", u, <<>>, <<>>, 0, <<>>, ErrInvalidUserID, 0, loc[p].n))
            /\ heap' = Collect(heap, AllAddrs(data) \cup HeldAddrs(loc'))
       ELSE LET v == validateAsset(raw) IN
            IF v.err # ErrNil
            THEN /\ Return(p, Local("create", u, <<>>, <<>>, 0, <<>>, v.err, 0, loc[p].n))
                 /\ heap' = Collect(heap, AllAddrs(data) \cup HeldAddrs(loc'))
            ELSE /\ FreeAddrs(heap) # {}
                 /\ \E id \in newID :
                      LET a == NewAddr(heap) IN
                      /\ loc' = [loc EXCEPT ![p] =
                                    Local("create", u, id, <<>>, a, <<>>, ErrNil, 0, @.n)]
                      /\ heap' = Collect(Put(heap, a, Favourite(id, v.t, v.desc, raw, now)),
                                         AllAddrs(data) \cup HeldAddrs(loc'))
                 /\ pc' = [pc EXCEPT ![p] = "c_lock"]
    /\ UNCHANGED <<data, now, res, live, mu, hist>>

CreateLock_Shared(p) ==
    /\ pc[p] = "c_lock"
    /\ CanRLock(mu)
    /\ mu' = [mu EXCEPT !.readers = @ \cup {p}]
    /\ pc' = [pc EXCEPT ![p] = "c_cs"]
    /\ UNCHANGED <<data, heap, now, res, live, loc, hist>>

\* r.mu.Lock() of Create
CreateLock(p) ==
    /\ pc[p] = "c_lock"
    /\ CanLock(mu)
    /\ mu' = [mu EXCEPT !.writer = p]
    /\ pc' = [pc EXCEPT ![p] = "c_cs"]
    /\ UNCHANGED <<data, heap, now, res, live, loc, hist>>

\* the body of Create, the deferred r.mu.Unlock(), and CreateFavourite's return
CreateBody(p) ==
    /\ pc[p] = "c_cs"
    /\ LET r == RepoCreate(data, loc[p].user, loc[p].favID, loc[p].f) IN
       /\ data' = r.data
       /\ Return(p, [loc[p] EXCEPT !.err = r.err,
                                   !.ret = IF r.err = ErrNil THEN loc[p].f ELSE 0])
       /\ hist' = Witnessed(r.data, heap)
       /\ heap' = Collect(heap, AllAddrs(r.data) \cup HeldAddrs(loc'))
    /\ mu' = [mu EXCEPT !.writer = 0]
    /\ UNCHANGED <<now, res, live>>

\* Service.UpdateFavouriteDescription up to the call of repo.UpdateDescription
StartUpdate(p, u, fid, desc) ==
    /\ Begin(p)
    /\ IF ~ValidateUserID(u) \/ TrimSpace(fid) = <<>>
       THEN Return(p, Local("update", u, fid, desc, 0, <<>>, ErrInvalidPath, 0, loc[p].n))
       ELSE /\ pc' = [pc EXCEPT ![p] = "u_lock"]
            /\ loc' = [loc EXCEPT ![p] = Local("update", u, fid, desc, 0, <<>>, ErrNil, 0, @.n)]
    /\ heap' = Collect(heap, AllAddrs(data) \cup HeldAddrs(loc'))
    /\ UNCHANGED <<data, now, res, live, mu, hist>>

\* r.mu.Lock() of UpdateDescription
UpdateLock(p) ==
    /\ pc[p] = "u_lock"
    /\ CanLock(mu)
    /\ mu' = [mu EXCEPT !.writer = p]
    /\ pc' = [pc EXCEPT ![p] = "u_cs"]
    /\ UNCHANGED <<data, heap, now, res, live, loc, hist>>

UpdateBody_NoUnlockOnNotFound(p) ==
    /\ pc[p] = "u_cs"
    /\ LET r == RepoUpdateDescription(data, heap, loc[p].user, loc[p].favID, loc[p].desc) IN
       /\ heap' = r.heap
       /\ Return(p, [loc[p] EXCEPT !.err = r.err, !.ret = r.ret])
       /\ hist' = Witnessed(data, r.heap)
       /\ mu' = IF r.err = ErrNil THEN [mu EXCEPT !.writer = 0] ELSE mu
    /\ UNCHANGED <<data, now, res, live>>

\* the body of UpdateDescription and the deferred r.mu.Unlock()
UpdateBody(p) ==
    /\ pc[p] = "u_cs"
    /\ LET r == RepoUpdateDescription(data, heap, loc[p].user, loc[p].favID, loc[p].desc) IN
       /\ heap' = r.heap
       /\ Return(p, [loc[p] EXCEPT !.err = r.err, !.ret = r.ret])
       /\ hist' = Witnessed(data, r.heap)
    /\ mu' = [mu EXCEPT !.writer = 0]
    /\ UNCHANGED <<data, now, res, live>>

\* Service.DeleteFavourite up to the call of repo.Delete
StartDelete(p, u, fid) ==
    /\ Begin(p)
    /\ IF ~ValidateUserID(u) \/ TrimSpace(fid) = <<>>
       THEN Return(p, Local("delete", u, fid, <<>>, 0, <<>>, ErrInvalidPath, 0, loc[p].n))
       ELSE /\ pc' = [pc EXCEPT ![p] = "d_lock"]
            /\ loc' = [loc EXCEPT ![p] = Local("delete", u, fid, <<>>, 0, <<>>, ErrNil, 0, @.n)]
    /\ heap' = Collect(heap, AllAddrs(data) \cup HeldAddrs(loc'))
    /\ UNCHANGED <<data, now, res, live, mu, hist>>

\* r.mu.Lock() of Delete
DeleteLock(p) ==
    /\ pc[p] = "d_lock"
    /\ CanLock(mu)
    /\ mu' = [mu EXCEPT !.writer = p]
    /\ pc' = [pc EXCEPT ![p] = "d_cs"]
    /\ UNCHANGED <<data, heap, now, res, live, loc, hist>>

\* the body of Delete and the deferred r.mu.Unlock()
DeleteBody(p) ==
    /\ pc[p] = "d_cs"
    /\ LET r == RepoDelete(data, loc[p].user, loc[p].favID) IN
       /\ data' = r.data
       /\ Return(p, [loc[p] EXCEPT !.err = r.err])
       /\ hist' = Witnessed(r.data, heap)
       /\ heap' = Collect(heap, AllAddrs(r.data) \cup HeldAddrs(loc'))
    /\ mu' = [mu EXCEPT !.writer = 0]
    /\ UNCHANGED <<now, res, live>>

\* a caller of InMemoryRepo.Get
StartGet(p, u, fid) ==
    /\ Begin(p)
    /\ pc' = [pc EXCEPT ![p] = "g_lock"]
    /\ loc' = [loc EXCEPT ![p] = Local("get", u, fid, <<>>, 0, <<>>, ErrNil, 0, @.n)]
    /\ heap' = Collect(heap, AllAddrs(data) \cup HeldAddrs(loc'))
    /\ UNCHANGED <<data, now, res, live, mu, hist>>

\* r.mu.RLock() of Get
GetRLock(p) ==
    /\ pc[p] = "g_lock"
    /\ CanRLock(mu)
    /\ mu' = [mu EXCEPT !.readers = @ \cup {p}]
    /\ pc' = [pc EXCEPT ![p] = "g_cs"]
    /\ UNCHANGED <<data, heap, now, res, live, loc, hist>>

\* the body of Get and the deferred r.mu.RUnlock()
GetBody(p) ==
    /\ pc[p] = "g_cs"
    /\ LET r == RepoGet(data, loc[p].user, loc[p].favID) IN
       Return(p, [loc[p] EXCEPT !.err = r.err, !.ret = r.ret])
    /\ mu' = [mu EXCEPT !.readers = @ \ {p}]
    /\ UNCHANGED <<data, heap, now, res, live, hist>>

NextConc ==
    \/ \E p \in Procs : StartList(p, UserA) /\ UNCHANGED <<resp, req, cfg, last, admitted, inflight>>
    \/ \E p \in Procs : ListRLock(p) /\ UNCHANGED <<resp, req, cfg, last, admitted, inflight>>
    \/ \E p \in Procs : ListBody(p) /\ UNCHANGED <<resp, req, cfg, last, admitted, inflight>>
    \/ \E p \in Procs : ListEncode(p) /\ UNCHANGED <<resp, req, cfg, last, admitted, inflight>>
    \/ \E p \in Procs : StartCreate(p, UserA, InsightOK) /\ UNCHANGED <<resp, req, cfg, last, admitted, inflight>>
    \/ \E p \in Procs : CreateLock(p) /\ UNCHANGED <<resp, req, cfg, last, admitted, inflight>>
    \/ \E p \in Procs : CreateBody(p) /\ UNCHANGED <<resp, req, cfg, last, admitted, inflight>>
    \/ \E p \in Procs, fid \in newID : StartUpdate(p, UserA, fid, <<"n">>) /\ UNCHANGED <<resp, req, cfg, last, admitted, inflight>>
    \/ \E p \in Procs : UpdateLock(p) /\ UNCHANGED <<resp, req, cfg, last, admitted, inflight>>
    \/ \E p \in Procs : UpdateBody(p) /\ UNCHANGED <<resp, req, cfg, last, admitted, inflight>>
    \/ \E p \in Procs, fid \in newID : StartDelete(p, UserA, fid) /\ UNCHANGED <<resp, req, cfg, last, admitted, inflight>>
    \/ \E p \in Procs : DeleteLock(p) /\ UNCHANGED <<resp, req, cfg, last, admitted, inflight>>
    \/ \E p \in Procs : DeleteBody(p) /\ UNCHANGED <<resp, req, cfg, last, admitted, inflight>>
    \/ \E p \in Procs, fid \in newID : StartGet(p, UserA, fid) /\ UNCHANGED <<resp, req, cfg, last, admitted, inflight>>
    \/ \E p \in Procs : GetRLock(p) /\ UNCHANGED <<resp, req, cfg, last, admitted, inflight>>
    \/ \E p \in Procs : GetBody(p) /\ UNCHANGED <<resp, req, cfg, last, admitted, inflight>>

SpecConc == InitConc /\ [][NextConc]_vars

\* the steps of a call goroutine p has started
Step(p) ==
    /\ \/ ListRLock(p) \/ ListBody(p) \/ ListEncode(p)
       \/ CreateLock(p) \/ CreateBody(p)
       \/ UpdateLock(p) \/ UpdateBody(p)
       \/ DeleteLock(p) \/ DeleteBody(p)
       \/ GetRLock(p) \/ GetBody(p)
    /\ UNCHANGED <<resp, req, cfg, last, admitted, inflight>>

\* FairConc: the Go scheduler runs every goroutine that can take a step
FairConc == SpecConc /\ \A p \in Procs : WF_vars(Step(p))

-----------------------------------------------------------------------------
(* The error kinds of the specification, read off the errors of the code *)

\* the Identity Rule: 1 to 64 characters, each a letter, a digit, "_" or "-"
IdentityRule(u) ==
    /\ Len(u) \in 1..64
    /\ Range(u) \subseteq (Lower \cup Upper \cup Digit \cup {"_", "-"})

\* InvalidIdentity: "invalid user id" of ListFavourites and CreateFavourite,
\* "invalid path" of UpdateFavouriteDescription and DeleteFavourite
InvalidIdentity(op, err) ==
    \/ op \in {"list", "create"} /\ err = ErrInvalidUserID
    \/ op \in {"update", "delete"} /\ err = ErrInvalidPath

SchemaViolation(err) == err \in {ErrChartNeeds, ErrInsightNeeds, ErrAudNeeds}

MalformedPayload(err) ==
    err \in {ErrInvalidJSON, ErrInvalidChart, ErrInvalidInsight, ErrInvalidAud}

UnknownAssetKind(err) == err = ErrUnknownType

NotFound(err) == err = ErrNotFound

\* DuplicateID: no error of the code carries this kind
ErrDuplicateID == "duplicate id"

-----------------------------------------------------------------------------
(* Properties *)

AllCreatedOnce(u) ==
    \A p \in Procs : /\ pc[p] = "idle"
                     /\ loc[p].n = 1
                     /\ loc[p].op = "create"
                     /\ loc[p].user = u

\* C1: when every goroutine has made one CreateFavourite call for the same
\* valid user and all of them have returned, each call succeeded, the returned
\* identifiers are pairwise distinct and every result a ListFavourites can now
\* return holds all the returned records.
C1_ConcurrentCreatesAllListed ==
    AllCreatedOnce(UserA) =>
        /\ \A p \in Procs : loc[p].err = ErrNil /\ loc[p].ret # 0
        /\ \A p, q \in Procs : p # q => loc[p].favID # loc[q].favID
        /\ \A out \in RepoList(data, heap, UserA) :
                \A p \in Procs : loc[p].ret \in Range(out)

LiveOf(u) == {x[2] : x \in {y \in live : y[1] = u}}

\* C2: for every user, the records List returns are exactly the favourites
\* created for that user and not since deleted.
C2_ListIsCreatedMinusDeleted ==
    \A u \in ValidUsers :
        \A out \in RepoList(data, heap, u) :
            /\ Range(out) = LiveOf(u)
            /\ Len(out) = Cardinality(LiveOf(u))

DistinctTimes(S) ==
    \A a, b \in S : a # b => heap[a].CreatedAt # heap[b].CreatedAt

\* C3: when the favourites of the user have pairwise distinct createdAt, a
\* successful List holds each of them exactly once, in strictly descending
\* createdAt order.
C3_ListNewestFirst ==
    (/\ res.op = "list"
     /\ res.err = ErrNil
     /\ DistinctTimes(UserAddrs(data, res.user)))
    => /\ Range(res.out) = UserAddrs(data, res.user)
       /\ Len(res.out) = Cardinality(UserAddrs(data, res.user))
       /\ \A i, j \in DOMAIN res.out :
            i < j => heap[res.out[i]].CreatedAt > heap[res.out[j]].CreatedAt

\* three favourites created at the clock readings 0, 1, 2 are listed newest first
C3_Witness ==
    /\ res.op = "list"
    /\ res.err = ErrNil
    /\ Len(res.out) = 3
    /\ [i \in 1..3 |-> heap[res.out[i]].CreatedAt] = <<2, 1, 0>>
    /\ \E i \in 1..3 : heap[res.out[i]].Description = <<"n">>

\* C4: two successive List calls for the same user against an unchanged store
\* return the same sequence.
C4_ListDeterministic ==
    [][(/\ res.op = "list" /\ res.err = ErrNil
        /\ res'.op = "list" /\ res'.err = ErrNil
        /\ res'.user = res.user
        /\ data' = data /\ heap' = heap)
       => res'.out = res.out]_vars

NoRepeat(s) == \A i, j \in DOMAIN s : i # j => s[i] # s[j]

\* C5: the records the caller of a List reads from the returned sequence are
\* the user's collection as it stood at one instant of the List call, none of
\* them twice.
C5_ListSnapshot ==
    \A p \in Procs :
        (pc[p] = "idle" /\ loc[p].op = "list" /\ loc[p].err = ErrNil /\ loc[p].n > 0)
        => /\ Range(hist[p].obs) \in hist[p].snaps
           /\ NoRepeat(hist[p].obs)

WriterCS(p) == pc[p] \in {"c_cs", "u_cs", "d_cs"}

ReaderCS(p) == pc[p] \in {"l_cs", "g_cs"}

\* C6: while a Create, UpdateDescription or Delete is inside its critical
\* section no other operation is inside its own, and while no writer is inside,
\* a List or Get is not kept out by the readers that are inside.
C6_SingleWriterManyReaders ==
    /\ \A p, q \in Procs :
            (p # q /\ WriterCS(p)) => ~(WriterCS(q) \/ ReaderCS(q))
    /\ (\A p \in Procs : ~WriterCS(p)) => CanRLock(mu)
    /\ \A p \in Procs : WriterCS(p) => (mu.writer = p /\ mu.readers = {})

\* a writer is inside its critical section while a List waits for the mutex
C6_Witness ==
    \E p, q \in Procs : /\ pc[p] = "u_cs"
                        /\ pc[q] = "l_lock"
                        /\ AllAddrs(data) # {}

\* C7: a Create that reaches the store fails with DuplicateID exactly when its
\* identifier is already in the store.
C7_CreateDuplicateID ==
    (res.op = "create" /\ res.reached) => ((res.err = ErrDuplicateID) <=> res.dup)

\* C8: no two stored records, of the same user or of different users, share an id.
C8_IDUniqueAcrossStore ==
    /\ \A a, b \in AllAddrs(data) : a # b => heap[a].ID # heap[b].ID
    /\ \A u, v \in DOMAIN data : u # v => (DOMAIN data[u]) \cap (DOMAIN data[v]) = {}

\* C9: a call of any of the four Service operations with a user id that does
\* not match the Identity Rule fails with InvalidIdentity, reaches no Store
\* operation and leaves the store as it was.
C9_InvalidIdentityRejected ==
    [][(res'.op # "none" /\ ~IdentityRule(res'.user))
       => /\ InvalidIdentity(res'.op, res'.err)
          /\ ~res'.reached
          /\ data' = data /\ heap' = heap]_vars

\* DeleteFavourite with an invalid user id and a blank favourite id, on a store
\* that holds a record
C9_Witness ==
    /\ res.op = "delete"
    /\ ~IdentityRule(res.user)
    /\ res.favID = <<>>
    /\ res.err = ErrInvalidPath
    /\ AllAddrs(data) # {}

RecognisedKind(raw) ==
    /\ raw.form = "object"
    /\ raw.f.type \in {JStr(AssetChart), JStr(AssetInsight), JStr(AssetAudience)}

IsEmpty(j) == j \in {JAbsent, JNull, JStr(<<>>), JArr(<<>>)}

\* the payload lacks a required field of its kind
LacksRequired(raw) ==
    \/ raw.f.type = JStr(AssetChart) /\ (IsEmpty(raw.f.title) \/ IsEmpty(raw.f.data))
    \/ raw.f.type = JStr(AssetInsight) /\ IsEmpty(raw.f.text)
    \/ raw.f.type = JStr(AssetAudience)
        /\ (IsEmpty(raw.f.gender) \/ IsEmpty(raw.f.age_groups))

TextShape(j) == j.k \in {"absent", "null", "string"}

ListShape(j, elem) ==
    \/ j.k \in {"absent", "null"}
    \/ j.k = "array" /\ \A i \in DOMAIN j.v : j.v[i] \in {elem, "null"}

\* every field of the payload has the JSON shape its kind declares
WellShaped(raw) ==
    /\ TextShape(raw.f.description)
    /\ raw.f.type = JStr(AssetChart) =>
            /\ TextShape(raw.f.title) /\ TextShape(raw.f.axis_x_title)
            /\ TextShape(raw.f.axis_y_title) /\ ListShape(raw.f.data, "number")
    /\ raw.f.type = JStr(AssetInsight) => TextShape(raw.f.text)
    /\ raw.f.type = JStr(AssetAudience) =>
            /\ TextShape(raw.f.gender) /\ TextShape(raw.f.birth_country)
            /\ ListShape(raw.f.age_groups, "string")
            /\ raw.f.hours_social_daily.k \in {"absent", "null", "number"}
            /\ raw.f.purchases_last_month \in {JAbsent, JNull, JInt}

\* C10 as stated: for a valid user, a payload of a recognised kind that lacks a
\* required field makes CreateFavourite fail with SchemaViolation.
C10_MissingFieldIsSchemaViolation ==
    (/\ res.op = "create"
     /\ IdentityRule(res.user)
     /\ RecognisedKind(res.raw)
     /\ LacksRequired(res.raw))
    => SchemaViolation(res.err)

\* C10, amended: for a valid user, a payload of a recognised kind whose fields
\* all have the declared shape and that lacks a required field makes
\* CreateFavourite fail with SchemaViolation without reaching the store, and
\* the store, hence what ListFavourites returns, is as before the call.
C10_WellShapedMissingFieldIsSchemaViolation ==
    [][(/\ res'.op = "create"
        /\ IdentityRule(res'.user)
        /\ RecognisedKind(res'.raw)
        /\ WellShaped(res'.raw)
        /\ LacksRequired(res'.raw))
       => /\ SchemaViolation(res'.err)
          /\ ~res'.reached
          /\ data' = data /\ heap' = heap
          /\ RepoList(data', heap', res'.user) = RepoList(data, heap, res'.user)]_vars

\* a chart with a title and an empty data series is refused while the user
\* has a favourite stored
C10_Witness ==
    /\ res.op = "create"
    /\ IdentityRule(res.user)
    /\ res.raw = ChartWith(JStr(<<"T">>), JArr(<<>>))
    /\ res.err = ErrChartNeeds
    /\ UserAddrs(data, res.user) # {}

\* the payload is a JSON value
WellFormed(raw) == raw.form \in {"object", "null", "array", "string", "number", "bool"}

\* the type field is absent or is not one of chart, insight, audience
UnknownKind(raw) == ~RecognisedKind(raw)

\* the payload is null or an object whose type and description, where present,
\* are text or null
EnvelopeShaped(raw) ==
    \/ raw.form = "null"
    \/ raw.form = "object" /\ TextShape(raw.f.type) /\ TextShape(raw.f.description)

\* C11 as stated: for a valid user, a well-formed payload whose type is absent
\* or is not a recognised kind makes CreateFavourite fail with UnknownAssetKind.
C11_UnknownKindRejected ==
    (/\ res.op = "create"
     /\ IdentityRule(res.user)
     /\ WellFormed(res.raw)
     /\ UnknownKind(res.raw))
    => UnknownAssetKind(res.err)

\* C11, amended: for a valid user, a payload that is null or an object whose
\* type and description are text, null or absent, and whose type is absent or
\* is not a recognised kind, makes CreateFavourite fail with UnknownAssetKind
\* without reaching the store, and nothing is stored.
C11_EnvelopeShapedUnknownKindRejected ==
    [][(/\ res'.op = "create"
        /\ IdentityRule(res'.user)
        /\ EnvelopeShaped(res'.raw)
        /\ UnknownKind(res'.raw))
       => /\ UnknownAssetKind(res'.err)
          /\ ~res'.reached
          /\ data' = data /\ heap' = heap]_vars

\* the JSON value null, which has no type field, is refused as an unknown kind
\* while the user has a favourite stored
C11_Witness ==
    /\ res.op = "create"
    /\ IdentityRule(res.user)
    /\ res.raw = Raw("null", EmptyObject)
    /\ res.err = ErrUnknownType
    /\ UserAddrs(data, res.user) # {}

NonBlank(j) == j.k = "string" /\ \E i \in DOMAIN j.v : ~IsSpace(j.v[i])

NonEmptyText(j) == j.k = "string" /\ j.v # <<>>

NonEmptyList(j, elem) ==
    j.k = "array" /\ j.v # <<>> /\ \A i \in DOMAIN j.v : j.v[i] = elem

\* the payload satisfies the rules of the kind it declares: a chart has a
\* title that is not blank and a non-empty series of numbers, an insight a text
\* that is not blank, an audience a non-empty gender and a non-empty list of
\* age-group labels; the optional fields have their declared shape
ValidPayload(raw) ==
    /\ RecognisedKind(raw)
    /\ WellShaped(raw)
    /\ raw.f.type = JStr(AssetChart) =>
            NonBlank(raw.f.title) /\ NonEmptyList(raw.f.data, "number")
    /\ raw.f.type = JStr(AssetInsight) => NonBlank(raw.f.text)
    /\ raw.f.type = JStr(AssetAudience) =>
            NonEmptyText(raw.f.gender) /\ NonEmptyList(raw.f.age_groups, "string")

\* the description of the payload's envelope, empty when there is none
EnvelopeDescription(raw) ==
    IF raw.f.description.k = "string" THEN raw.f.description.v ELSE <<>>

\* C12: for a valid user and a payload that satisfies its kind's rules,
\* CreateFavourite succeeds; the record it returns has a non-empty id, the
\* payload's declared type as kind and the envelope's description, and every
\* result ListFavourites can then return for that user holds that record.
C12_ValidCreateReturnsRecord ==
    [][(/\ res'.op = "create"
        /\ IdentityRule(res'.user)
        /\ ValidPayload(res'.raw))
       => /\ res'.err = ErrNil
          /\ res'.ret \in DOMAIN heap'
          /\ heap'[res'.ret].ID # <<>>
          /\ heap'[res'.ret].ID = res'.favID
          /\ JStr(heap'[res'.ret].Type) = res'.raw.f.type
          /\ heap'[res'.ret].Description = EnvelopeDescription(res'.raw)
          /\ \A out \in RepoList(data', heap', res'.user) :
                \E i \in DOMAIN out : out[i] = res'.ret]_vars

\* a valid chart with a description has been created and is stored
C12_Witness ==
    /\ res.op = "create"
    /\ IdentityRule(res.user)
    /\ res.raw = ChartOK
    /\ res.err = ErrNil
    /\ res.ret \in UserAddrs(data, res.user)
    /\ heap[res.ret].Description = <<"d">>
    /\ heap[res.ret].Type = AssetChart

SameCreation(f, g) ==
    /\ f.ID = g.ID
    /\ f.Type = g.Type
    /\ f.Asset = g.Asset
    /\ f.CreatedAt = g.CreatedAt

\* C13: for every favourite created and not since deleted, Get with its user
\* and id succeeds and returns its id, kind, payload and createdAt as they were
\* at creation, and every result of List holds a record with these values.
C13_RoundTrip ==
    \A x \in live :
        LET r == RepoGet(data, x[1], x[3].ID) IN
        /\ r.err = ErrNil
        /\ SameCreation(heap[r.ret], x[3])
        /\ \A out \in RepoList(data, heap, x[1]) :
                \E i \in DOMAIN out : SameCreation(heap[out[i]], x[3])

\* C14: a successful UpdateFavouriteDescription(u, id, d) leaves the map of
\* stored records as it was, gives the record of (u, id) the description d and
\* leaves its id, kind, payload and createdAt, and every other record of every
\* user, as they were.
C14_UpdateChangesOnlyDescription ==
    [][(res'.op = "update" /\ res'.err = ErrNil)
       => /\ data' = data
          /\ DOMAIN heap' = DOMAIN heap
          /\ res'.ret = data[res'.user][res'.favID]
          /\ SameCreation(heap'[res'.ret], heap[res'.ret])
          /\ heap'[res'.ret].Description = res'.desc
          /\ \A b \in DOMAIN heap : b # res'.ret => heap'[b] = heap[b]]_vars

\* a description was updated while the store holds the records of two users,
\* and the other record kept its own description
C14_Witness ==
    /\ res.op = "update"
    /\ res.err = ErrNil
    /\ heap[res.ret].Description = <<"n">>
    /\ \E v \in DOMAIN data : /\ v # res.user
                               /\ \E b \in UserAddrs(data, v) : heap[b].Description = <<>>

\* the favourite id names no record of user v and names a record of another user
OnlyUnderAnother(d, v, fid) ==
    /\ v \in DOMAIN d => fid \notin DOMAIN d[v]
    /\ \E u \in DOMAIN d : u # v /\ fid \in DOMAIN d[u]

\* C15: every operation invoked for a user leaves the collection of every
\* other user, and the records in it, as they were; Get, UpdateDescription and
\* Delete invoked for a valid user with the id of a favourite that exists only
\* under another user fail with NotFound and leave the store as it was; and a
\* favourite created for a user is in no result List can return for another.
C15_PerUserIsolation ==
    [][/\ res'.op # "none" =>
            \A v \in (DOMAIN data \cup DOMAIN data') \ {res'.user} :
                /\ v \in DOMAIN data /\ v \in DOMAIN data'
                /\ data'[v] = data[v]
                /\ \A a \in UserAddrs(data, v) : heap'[a] = heap[a]
       /\ (/\ res'.op \in {"get", "update", "delete"}
           /\ IdentityRule(res'.user)
           /\ OnlyUnderAnother(data, res'.user, res'.favID))
          => /\ NotFound(res'.err)
             /\ data' = data /\ heap' = heap
       /\ \A x \in live' : \A v \in ValidUsers \ {x[1]} :
            \A out \in RepoList(data', heap', v) : x[2] \notin Range(out)]_vars

\* Get for a user who has a favourite, with the id of another user's favourite
C15_Witness ==
    /\ res.op = "get"
    /\ NotFound(res.err)
    /\ UserAddrs(data, res.user) # {}
    /\ OnlyUnderAnother(data, res.user, res.favID)

\* user u has a favourite with id fid
Stored(d, u, fid) == u \in DOMAIN d /\ fid \in DOMAIN d[u]

NonBlankID(fid) == \E i \in DOMAIN fid : ~IsSpace(fid[i])

\* C16: DeleteFavourite of a stored favourite succeeds and removes that record
\* and no other: what List returns is one shorter and is without it.
\* DeleteFavourite of a favourite that is not stored fails with NotFound and
\* leaves the store as it was; and a favourite that is not stored becomes
\* stored by a Create alone, so a second delete with no Create in between is
\* a delete of a favourite that is not stored.
C16_DeleteThenNotFound ==
    [][/\ (/\ res'.op = "delete"
           /\ IdentityRule(res'.user)
           /\ Stored(data, res'.user, res'.favID))
          => LET u == res'.user
                 a == data[u][res'.favID]
             IN  /\ res'.err = ErrNil
                 /\ ~Stored(data', u, res'.favID)
                 /\ DOMAIN data' = DOMAIN data
                 /\ \A v \in DOMAIN data \ {u} : data'[v] = data[v]
                 /\ \A k \in DOMAIN data[u] \ {res'.favID} :
                        Stored(data', u, k) /\ data'[u][k] = data[u][k]
                 /\ \A b \in AllAddrs(data') : heap'[b] = heap[b]
                 /\ \A out \in RepoList(data', heap', u) :
                        /\ a \notin Range(out)
                        /\ Len(out) = Cardinality(UserAddrs(data, u)) - 1
       /\ (/\ res'.op = "delete"
           /\ IdentityRule(res'.user)
           /\ NonBlankID(res'.favID)
           /\ ~Stored(data, res'.user, res'.favID))
          => /\ NotFound(res'.err)
             /\ data' = data /\ heap' = heap
       /\ \A u \in ValidUsers, k \in newID :
            (~Stored(data, u, k) /\ Stored(data', u, k))
            => (res'.op = "create" /\ res'.user = u /\ res'.favID = k)]_vars

\* a delete failed with NotFound for a user whose collection was emptied by an
\* earlier delete, while another user has a favourite
C16_Witness ==
    /\ res.op = "delete"
    /\ NotFound(res.err)
    /\ res.user \in DOMAIN data
    /\ UserAddrs(data, res.user) = {}
    /\ AllAddrs(data) # {}

\* the description Get reads for the favourite fid of user u
DescriptionOf(d, h, u, fid) == h[d[u][fid]].Description

\* C17: UpdateFavouriteDescription(u, id, d) of a stored favourite returns
\* that record with description d, and Get and List then show d;
\* for a favourite that is not stored it fails with NotFound and leaves the
\* store as it was; and the description read for a favourite that stays stored
\* changes in no step but a successful update of that favourite.
C17_UpdateDescriptionLasts ==
    [][/\ (/\ res'.op = "update"
           /\ IdentityRule(res'.user)
           /\ Stored(data, res'.user, res'.favID))
          => /\ res'.err = ErrNil
             /\ res'.ret = data[res'.user][res'.favID]
             /\ heap'[res'.ret].Description = res'.desc
             /\ Stored(data', res'.user, res'.favID)
             /\ DescriptionOf(data', heap', res'.user, res'.favID) = res'.desc
             /\ \A out \in RepoList(data', heap', res'.user) :
                    \E i \in DOMAIN out :
                        out[i] = res'.ret /\ heap'[out[i]].Description = res'.desc
       /\ (/\ res'.op = "update"
           /\ IdentityRule(res'.user)
           /\ NonBlankID(res'.favID)
           /\ ~Stored(data, res'.user, res'.favID))
          => /\ NotFound(res'.err)
             /\ res'.ret = 0
             /\ data' = data /\ heap' = heap
       /\ \A u \in ValidUsers, k \in newID :
            (/\ Stored(data, u, k) /\ Stored(data', u, k)
             /\ DescriptionOf(data', heap', u, k) # DescriptionOf(data, heap, u, k))
            => /\ res'.op = "update" /\ res'.err = ErrNil
               /\ res'.user = u /\ res'.favID = k]_vars

Min(a, b) == IF a < b THEN a ELSE b

\* the elements of L from index lo up to but excluding hi, indices from 0
Between(L, lo, hi) == [i \in 1..(hi - lo) |-> L[lo + i]]

\* a list of n records, named by their rank
Ranked(n) == [i \in 1..n |-> i]

\* C18: a list request that ListFavourites answers with L is answered with
\* status 200, an effective limit l >= 1 and offset o >= 0, total |L| and the
\* page Between(L, min(o, |L|), min(o + l, |L|)); and for every list of up to
\* MaxList records, every offset and every limit >= 1 the slice is that
\* sub-sequence and its bounds are in range, so that 5 records with limit 2
\* and offset 2 give the 3rd and the 4th.
C18_PageIsContiguousSlice ==
    /\ (res.op = "list" /\ res.err = ErrNil)
       => /\ resp.status = StatusOK
          /\ resp.limit >= 1
          /\ resp.offset >= 0
          /\ resp.total = Len(res.out)
          /\ resp.favourites =
                Between(res.out, Min(resp.offset, Len(res.out)),
                        Min(resp.offset + resp.limit, Len(res.out)))
    /\ \A n \in 0..MaxList, o \in 0..(MaxList + 1), l \in 1..(MaxList + 1) :
            page(Ranked(n), l, o) =
                [panic |-> FALSE, v |-> Between(Ranked(n), Min(o, n), Min(o + l, n))]
    /\ page(Ranked(5), 2, 2).v = <<3, 4>>

\* three favourites created at the clock readings 0, 1, 2 are listed with
\* limit 1 and offset 1: the page is the second newest
C18_Witness ==
    /\ res.op = "list"
    /\ res.err = ErrNil
    /\ Len(res.out) = 3
    /\ [i \in 1..3 |-> heap[res.out[i]].CreatedAt] = <<2, 1, 0>>
    /\ resp.status = StatusOK
    /\ resp.limit = 1 /\ resp.offset = 1 /\ resp.total = 3
    /\ resp.favourites = <<res.out[2]>>

\* the step is a PATCH or DELETE request that reached the Service
ReachedService ==
    /\ res'.op \in {"update", "delete"}
    /\ resp'.error \notin {"404 page not found", "description is required"}

\* C19: an UpdateFavouriteDescription or DeleteFavourite request with a
\* malformed user id is reported as InvalidIdentity and answered with status
\* 400; one with a valid user id and a non-blank favourite id that names no
\* stored favourite is reported as NotFound and answered with 404; no error is
\* of both kinds, NotFound is reported for no malformed user id, and the
\* status is 400 exactly for InvalidIdentity and 404 exactly for NotFound.
C19_InvalidIdentityIsNotNotFound ==
    [][ReachedService =>
        /\ ~IdentityRule(res'.user)
            => InvalidIdentity(res'.op, res'.err) /\ resp'.status = StatusBadRequest
        /\ (/\ IdentityRule(res'.user)
            /\ NonBlankID(res'.favID)
            /\ ~Stored(data, res'.user, res'.favID))
            => NotFound(res'.err) /\ resp'.status = StatusNotFound
        /\ ~(InvalidIdentity(res'.op, res'.err) /\ NotFound(res'.err))
        /\ NotFound(res'.err) => IdentityRule(res'.user)
        /\ InvalidIdentity(res'.op, res'.err) <=> resp'.status = StatusBadRequest
        /\ NotFound(res'.err) <=> resp'.status = StatusNotFound]_vars

\* a delete request of a valid user for an id that is not stored was answered
\* with 404 while the user has a favourite
C19_Witness ==
    /\ res.op = "delete"
    /\ IdentityRule(res.user)
    /\ NotFound(res.err)
    /\ resp.status = StatusNotFound
    /\ UserAddrs(data, res.user) # {}

\* goroutine p is inside a call
Started(p) == pc[p] # "idle"

\* a goroutine that is in no call holds the mutex in no mode
LockReleased ==
    \A p \in Procs : ~Started(p) => (mu.writer # p /\ p \notin mu.readers)

\* while a call is in progress, some call in progress can take a step
NoDeadlock == (\E p \in Procs : Started(p)) => \E p \in Procs : Started(p) /\ ENABLED Step(p)

\* C20: under fair scheduling every started List, Get, Create,
\* UpdateDescription and Delete returns; a call that has returned, on the
\* NotFound paths too, holds the mutex no longer; and no state with a call in
\* progress is a deadlock.
C20_EveryCallReturns ==
    /\ [](LockReleased /\ NoDeadlock)
    /\ \A p \in Procs : Started(p) ~> ~Started(p)

\* an UpdateDescription has returned NotFound and another goroutine, after
\* it, is inside List with the read lock
C20_Witness ==
    \E p, q \in Procs :
        /\ ~Started(p)
        /\ loc[p].op = "update" /\ NotFound(loc[p].err) /\ loc[p].n > 0
        /\ pc[q] = "l_cs"
        /\ mu = [writer |-> 0, readers |-> {q}]

\* the absolute value of an integer
Abs(i) == IF i < 0 THEN 0 - i ELSE i

\* any two requests admitted for one key have timestamps at least d apart
Spaced(adm, d) ==
    \A i, j \in DOMAIN adm :
        (i < j /\ adm[i][1] = adm[j][1]) => Abs(adm[j][2] - adm[i][2]) >= d

\* goroutine p's request gets its answer from the limiter in this step
Decided(p) == inflight[p].at = "lock" /\ inflight'[p].at # "lock"

\* the timestamp of p's request is less than d after some request admitted
\* for its key
TooSoon(p, d) ==
    \E i \in DOMAIN admitted :
        /\ admitted[i][1] = inflight[p].key
        /\ inflight[p].now - admitted[i][2] < d

\* C21: for every key (the user of a /users/{userID}/... path, otherwise the
\* remote address) and under any interleaving, any two admitted requests of
\* the key have timestamps at least the configured interval apart; a request
\* whose timestamp is less than the interval after the last admitted one of
\* its key is answered 429 and the next handler is not called; a request is
\* rejected only because of an admitted request of its own key, and the
\* limiter's decision on it touches the stored time of no other key.
C21_MinimumIntervalPerKey ==
    [][/\ Spaced(admitted', rate(cfg))
       /\ \A p \in Procs : Decided(p) =>
            /\ inflight[p].key = IF inflight[p].r.user # <<>>
                                 THEN <<"user:", inflight[p].r.user>>
                                 ELSE <<"", inflight[p].r.addr>>
            /\ (/\ inflight[p].key \in DOMAIN last
                /\ inflight[p].now - last[inflight[p].key] < rate(cfg))
                => /\ resp'.status = StatusTooManyRequests
                   /\ inflight'[p].at = "idle"
                   /\ admitted' = admitted
                   /\ UNCHANGED <<res, data, heap>>
            /\ inflight'[p].at = "idle" => TooSoon(p, rate(cfg))
            /\ \A k \in DOMAIN last' :
                  k # inflight[p].key => (k \in DOMAIN last /\ last'[k] = last[k])]_vars

\* with a positive interval, a key has two admitted requests, another key has
\* one in between, and the last answer is a 429
C21_Witness ==
    /\ rate(cfg) > 0
    /\ resp.status = StatusTooManyRequests
    /\ \E i, j, m \in DOMAIN admitted :
          /\ i < m /\ m < j
          /\ admitted[i][1] = admitted[j][1]
          /\ admitted[m][1] # admitted[i][1]
          /\ admitted[m][2] - admitted[i][2] < rate(cfg)

\* C22: with the minimum interval configured as 0 no request is answered
\* 429, for any number of requests of one key and any interleaving.
C22_ZeroIntervalNeverRejects ==
    rate(cfg) = 0 => resp.status # StatusTooManyRequests

\* the answer to a list request of a user with a valid id
Listed == req.method = "GET" /\ req.user # <<>> /\ IdentityRule(req.user)

\* C23: the effective limit is the requested value when it parses as an
\* integer in 1..1000, 1000 when it is larger, and 100 when it is absent,
\* unparseable, zero or negative; the effective offset is the requested value
\* when it parses as an integer >= 0 and 0 otherwise; the response echoes
\* both, its page holds at most limit records, and for a user without
\* favourites the total is 0 and the page empty, with limit 100 and offset 0
\* when the request names neither.
C23_EffectivePagination ==
    Listed =>
        /\ resp.status = StatusOK
        /\ resp.limit \in 1..1000
        /\ resp.offset >= 0
        /\ (req.limit.k = "int" /\ req.limit.n \in 1..1000) => resp.limit = req.limit.n
        /\ (req.limit.k = "int" /\ req.limit.n > 1000) => resp.limit = 1000
        /\ (req.limit.k # "int" \/ req.limit.n <= 0) => resp.limit = 100
        /\ (req.offset.k = "int" /\ req.offset.n >= 0) => resp.offset = req.offset.n
        /\ (req.offset.k # "int" \/ req.offset.n < 0) => resp.offset = 0
        /\ Len(resp.favourites) <= resp.limit
        /\ UserAddrs(data, req.user) = {} =>
              /\ resp.total = 0
              /\ resp.favourites = <<>>
              /\ (req.limit.k = "absent" /\ req.offset.k = "absent")
                    => resp.limit = 100 /\ resp.offset = 0

\* a request for more than 1000 records from the second on was answered with
\* limit 1000 and the two records after the first of three
C23_Witness ==
    /\ Listed
    /\ req.limit.k = "int" /\ req.limit.n > 1000
    /\ req.offset = QInt(1)
    /\ resp.limit = 1000
    /\ resp.total = 3
    /\ Len(resp.favourites) = 2

\* a step in which the server answers a request (the clock stands still)
Answered == now' = now

\* the step left the store and the record of the service calls as they were
ServiceNotReached == UNCHANGED <<res, data, heap, live>>

\* the rate limiter admitted the request of the step
PassedLimiter == admitted' # admitted

\* C24 as stated: with a non-empty API key configured every request whose
\* X-API-Key header differs from it is answered 401 and reaches neither the
\* routes nor the service, the store unchanged; with an empty key every
\* request passes.
C24_WrongKeyUnauthorized ==
    [][Answered =>
        /\ (cfg.APIKey # <<>> /\ req'.key # cfg.APIKey)
              => resp'.status = StatusUnauthorized /\ ServiceNotReached
        /\ cfg.APIKey = <<>> => resp'.status # StatusUnauthorized]_vars

\* C24, amended: with an API key configured that is not blank, every request
\* the rate limiter admitted whose X-API-Key header differs from the key is
\* answered 401 and reaches neither the routes nor the service, the store
\* unchanged, and one the limiter did not admit is answered 429; with a key
\* that is empty or only whitespace no request is answered 401.
C24_WrongKeyUnauthorizedWhenAdmitted ==
    [][Answered =>
        /\ (TrimSpace(cfg.APIKey) # <<>> /\ req'.key # cfg.APIKey /\ PassedLimiter)
              => /\ resp'.status = StatusUnauthorized
                 /\ resp'.error = "unauthorized"
                 /\ ServiceNotReached
        /\ (TrimSpace(cfg.APIKey) # <<>> /\ req'.key # cfg.APIKey /\ ~PassedLimiter)
              => resp'.status = StatusTooManyRequests /\ ServiceNotReached
        /\ (TrimSpace(cfg.APIKey) # <<>> /\ req'.key = cfg.APIKey)
              => resp'.status # StatusUnauthorized
        /\ TrimSpace(cfg.APIKey) = <<>> => resp'.status # StatusUnauthorized]_vars

\* a create request with a wrong key was answered 401 by a server with a key,
\* after a request with the right key had stored a favourite
C24_Witness ==
    /\ cfg.APIKey = <<"k">>
    /\ req.method = "POST"
    /\ req.key # <<"k">>
    /\ resp.status = StatusUnauthorized
    /\ data # <<>>
    /\ res.op = "create"

\* the body of the response is one record, the one with id fid
BodyIsRecord(h, body, fid) ==
    /\ Len(body) = 1
    /\ body[1] \in DOMAIN h
    /\ h[body[1]].ID = fid

\* C25: a valid create is answered 201 with the created record, whose id is
\* not empty; a list of a valid user is answered 200; a PATCH with a
\* description for a stored favourite is answered 200 with the updated
\* record; a DELETE of a stored favourite is answered 204; every service
\* error of a create or a list is answered 400; a PATCH whose body has no
\* description is answered 400 and the service is not called.
C25_CrudOutcomes ==
    [][/\ (/\ req'.method = "POST"
           /\ IdentityRule(req'.user)
           /\ ValidPayload(req'.raw))
          => /\ resp'.status = 201
             /\ res'.favID # <<>>
             /\ BodyIsRecord(heap', resp'.favourites, res'.favID)
             /\ Stored(data', req'.user, res'.favID)
       /\ (req'.method = "GET" /\ IdentityRule(req'.user)) => resp'.status = 200
       /\ (/\ req'.method = "PATCH"
           /\ req'.desc.k = "string"
           /\ IdentityRule(req'.user)
           /\ Stored(data, req'.user, req'.favID))
          => /\ resp'.status = 200
             /\ BodyIsRecord(heap', resp'.favourites, req'.favID)
             /\ heap'[resp'.favourites[1]].Description = req'.desc.v
             /\ data'[req'.user][req'.favID] = resp'.favourites[1]
       /\ (/\ req'.method = "DELETE"
           /\ IdentityRule(req'.user)
           /\ Stored(data, req'.user, req'.favID))
          => resp'.status = 204 /\ ~Stored(data', req'.user, req'.favID)
       /\ (req'.method \in {"POST", "GET"} /\ res'.err # ErrNil)
          => resp'.status = 400 /\ resp'.error = res'.err /\ data' = data
       /\ (req'.method = "PATCH" /\ req'.favID # <<>> /\ req'.desc.k # "string")
          => resp'.status = 400 /\ ServiceNotReached]_vars

\* a PATCH was answered 200 with the record it updated, a second favourite
\* being stored
C25_Witness ==
    /\ req.method = "PATCH"
    /\ resp.status = 200
    /\ BodyIsRecord(heap, resp.favourites, req.favID)
    /\ heap[resp.favourites[1]].Description = <<"n">>
    /\ Cardinality(AllAddrs(data)) = 2

\* the outcome of a validation, by the error it returned
Outcome(err) ==
    CASE MalformedPayload(err) -> "MalformedPayload"
      [] UnknownAssetKind(err) -> "UnknownAssetKind"
      [] SchemaViolation(err)  -> "SchemaViolation"
      [] err = ErrNil          -> "success"
      [] OTHER                 -> "other"

\* the outcome the precedence of the rules gives a payload, the first test
\* being that the payload is a JSON value
Precedence(raw) ==
    IF ~WellFormed(raw) THEN "MalformedPayload"
    ELSE IF UnknownKind(raw) THEN "UnknownAssetKind"
    ELSE IF ~WellShaped(raw) THEN "MalformedPayload"
    ELSE IF ~ValidPayload(raw) THEN "SchemaViolation"
    ELSE "success"

\* the same, the first test being that the payload is null or an object whose
\* type and description are text, null or absent
PrecedenceOnEnvelope(raw) ==
    IF ~EnvelopeShaped(raw) THEN "MalformedPayload"
    ELSE IF UnknownKind(raw) THEN "UnknownAssetKind"
    ELSE IF ~WellShaped(raw) THEN "MalformedPayload"
    ELSE IF ~ValidPayload(raw) THEN "SchemaViolation"
    ELSE "success"

\* a step that is a CreateFavourite of a user with a valid id
Validated == res'.op = "create" /\ IdentityRule(res'.user)

\* C26 as stated: the validator gives every payload the one outcome of the
\* precedence: MalformedPayload when it is not well-formed, else
\* UnknownAssetKind when the type is missing or not recognised, else
\* MalformedPayload when a field of the kind has the wrong shape, else
\* SchemaViolation when a required-field rule is unmet, else success.
C26_ValidatorPrecedence ==
    [][Validated => Outcome(res'.err) = Precedence(res'.raw)]_vars

\* C26, amended: the first test of the precedence is that the payload is null
\* or an object whose type and description are text, null or absent; every
\* payload gets the one outcome of this precedence, whatever the store holds
\* and whatever the clock shows; success carries the kind and the description
\* of the payload; and a validation that fails changes no state.
C26_ValidatorPrecedenceOnEnvelope ==
    [][Validated =>
        /\ Outcome(res'.err) = PrecedenceOnEnvelope(res'.raw)
        /\ res'.err = ErrNil =>
              /\ res'.ret \in DOMAIN heap'
              /\ JStr(heap'[res'.ret].Type) = res'.raw.f.type
              /\ heap'[res'.ret].Description = EnvelopeDescription(res'.raw)
        /\ res'.err # ErrNil =>
              /\ ~res'.reached
              /\ UNCHANGED <<data, heap, live, now>>]_vars

\* a chart whose data is not a list of numbers but whose title is blank is
\* refused as malformed, not as a schema violation, while a favourite is
\* stored
C26_Witness ==
    /\ res.op = "create"
    /\ IdentityRule(res.user)
    /\ res.raw = ChartWith(JStr(<<" ">>), JStr(<<"x">>))
    /\ Outcome(res.err) = "MalformedPayload"
    /\ AllAddrs(data) # {}

\* the value is a text of whitespace and nothing else
OnlyWhitespace(j) == j.k = "string" /\ j.v # <<>> /\ \A i \in DOMAIN j.v : IsSpace(j.v[i])

\* the required text field of the payload's kind: the title of a chart, the
\* text of an insight, the gender of an audience
RequiredText(raw) ==
    CASE raw.f.type = JStr(AssetChart)    -> raw.f.title
      [] raw.f.type = JStr(AssetInsight)  -> raw.f.text
      [] raw.f.type = JStr(AssetAudience) -> raw.f.gender

\* C27: a required text field that consists only of whitespace is treated as
\* empty: the payload is rejected with a schema violation, the same for the
\* title of a chart, the text of an insight and the gender of an audience.
C27_WhitespaceIsEmpty ==
    (/\ res.op = "create"
     /\ IdentityRule(res.user)
     /\ RecognisedKind(res.raw)
     /\ WellShaped(res.raw)
     /\ OnlyWhitespace(RequiredText(res.raw)))
    => SchemaViolation(res.err)

\* the positions in the history of the admitted requests of key k
AdmittedFor(adm, k) == {i \in DOMAIN adm : adm[i][1] = k}

\* the timestamp of the request admitted last for key k
LastAdmitted(adm, k) ==
    adm[CHOOSE i \in AdmittedFor(adm, k) : \A j \in AdmittedFor(adm, k) : j <= i][2]

\* the stored times are those of the requests admitted last, key by key
StoresLastAdmitted(l, adm) ==
    /\ DOMAIN l = {adm[i][1] : i \in DOMAIN adm}
    /\ \A k \in DOMAIN l : l[k] = LastAdmitted(adm, k)

\* C28: a rejected request records no timestamp: the stored time of a key is
\* that of the request admitted last for the key and changes only in the step
\* that admits a request for it; and a request whose timestamp is at least
\* the configured interval after that of the request admitted last for its
\* key is admitted, whatever was rejected in between.
C28_RejectionRecordsNothing ==
    [][/\ StoresLastAdmitted(last', admitted')
       /\ last' # last =>
            \E p \in Procs :
                /\ Decided(p)
                /\ inflight'[p].at = "next"
                /\ admitted' = Append(admitted, <<inflight[p].key, inflight[p].now>>)
                /\ last' = Put(last, inflight[p].key, inflight[p].now)
       /\ \A p \in Procs :
            (/\ Decided(p)
             /\ AdmittedFor(admitted, inflight[p].key) # {} =>
                    inflight[p].now - LastAdmitted(admitted, inflight[p].key) >= rate(cfg))
            => /\ inflight'[p].at = "next"
               /\ resp' = resp
               /\ admitted' = Append(admitted, <<inflight[p].key, inflight[p].now>>)
       /\ \A p \in Procs :
            (Decided(p) /\ inflight'[p].at = "idle")
            => last' = last /\ admitted' = admitted]_vars

\* with a positive interval, a key has two admitted requests at least the
\* interval apart and a goroutine's request for the key, with a timestamp
\* between theirs, was rejected
C28_Witness ==
    /\ rate(cfg) > 0
    /\ \E p \in Procs, i, j \in DOMAIN admitted :
          /\ i < j
          /\ inflight[p].at = "idle" /\ inflight[p].n > 0
          /\ admitted[i][1] = inflight[p].key
          /\ admitted[j][1] = inflight[p].key
          /\ admitted[i][2] < inflight[p].now
          /\ inflight[p].now < admitted[j][2]
          /\ last[inflight[p].key] = admitted[j][2]

\* the rate-limit key of request r: the user of its path, else its address
KeyOf(r) == IF r.user # <<>> THEN <<"user:", r.user>> ELSE <<"", r.addr>>

\* request r, arriving now, is less than the interval after the request
\* admitted last for its key
OverLimit(r) == KeyOf(r) \in DOMAIN last /\ now - last[KeyOf(r)] < rate(cfg)

\* the server requires a key and request r does not carry it
WrongKey(r) == TrimSpace(cfg.APIKey) # <<>> /\ r.key # cfg.APIKey

====
